---- MODULE Spec2Model ----
(***************************************************************************)
(* The GuardDuty finding enrichment Lambda (app/ai_generator/index.py).    *)
(*                                                                         *)
(* One run of lambda_handler is a sequential process.  Its position pc is  *)
(* the collaborator call it is about to make; one action performs that     *)
(* call with every outcome the collaborator can produce and then runs the  *)
(* handler's own code up to the next call or to the return statement.      *)
(* The collaborators (GuardDuty, Detective, Bedrock, S3, SNS, EventBridge) *)
(* are the environment: their answers are drawn from small sets.           *)
(*                                                                         *)
(* Representation of values:                                               *)
(*   - a text is the sequence of its lines (the text split at "\n");       *)
(*   - a message built with an f-string is the sequence of its pieces;     *)
(*   - a URL is the sequence of its characters;                            *)
(*   - a severity is counted in tenths (4.0 is 40);                        *)
(*   - a time is counted in seconds since 2024-01-01T00:00:00 UTC.         *)
(***************************************************************************)
EXTENDS Integers, Sequences, FiniteSets, TLC

VARIABLES
    pc,             \* run -> the call the run is about to make, or "done" / "raised"
    event,          \* run -> the trigger event handed to lambda_handler
    env,            \* run -> os.environ as seen by the run
    finding,        \* run -> local variable finding
    detective_entities, \* run -> local variable detective_entities
    ai_insights,    \* run -> local variable ai_insights
    sched,          \* run -> locals of schedule_retry (rule name, cron expression, creation time)
    pdf_buffer,     \* run -> local variable pdf_buffer
    pre_signed_url, \* run -> local variable pre_signed_url
    result,         \* run -> the {statusCode, body} returned
    exit,           \* run -> the return statement (or raise) the run left through
    calls,          \* run -> the collaborator calls the run has made, in order
    errors,         \* run -> the messages passed to logger.error, in order
    rules,          \* EventBridge: the rules that exist
    objects,        \* S3: the objects that exist
    published,      \* SNS: the messages published, in order
    uuids           \* the number of uuid4 values generated so far

vars == <<pc, event, env, finding, detective_entities, ai_insights, sched, pdf_buffer,
          pre_signed_url, result, exit, calls, errors, rules, objects, published, uuids>>

-----------------------------------------------------------------------------
(* Bounds of the model *)

\* URLs handed back by generate_presigned_url have at most this many characters
MaxUrlLen == 4

-----------------------------------------------------------------------------
(* Program constants *)

SeverityThreshold == 40

MinDelay == 1

MaxDelay == 600

ExpiresIn == 3600

S3_BUCKET_NAME == "test-bucket"

SNS_TOPIC_ARN == "arn:aws:sns:us-east-1:123456789012:my-test-topic"

FUNCTION_NAME == "test"

RULE_PREFIX == "RetryLambdaInvocation-"

-----------------------------------------------------------------------------
(* Generic helpers *)

Has(d, k) == k \in DOMAIN d

\* dict.get(k, default)
Get(d, k, default) == IF Has(d, k) THEN d[k] ELSE default

\* a dict without key k
Without(d, k) == [f \in DOMAIN d \ {k} |-> d[f]]

\* json.dumps: the JSON document carrying the value
JsonDumps(x) == [json |-> x]

\* json.loads
JsonLoads(doc) == doc.json

-----------------------------------------------------------------------------
(* Time: datetime.utcnow(), timedelta and the cron expression of schedule_retry *)

IsLeap(y) == (y % 4 = 0 /\ y % 100 # 0) \/ y % 400 = 0

DaysInMonth(y, m) ==
    IF m = 2 THEN (IF IsLeap(y) THEN 29 ELSE 28)
    ELSE IF m \in {4, 6, 9, 11} THEN 30 ELSE 31

DaysInYear(y) == IF IsLeap(y) THEN 366 ELSE 365

\* the day from which times are counted
Epoch == [year |-> 2024, month |-> 1, day |-> 1]

RECURSIVE MonthFrom(_, _, _)
MonthFrom(y, m, d) ==
    IF d >= DaysInMonth(y, m) THEN MonthFrom(y, m + 1, d - DaysInMonth(y, m))
    ELSE [year |-> y, month |-> m, day |-> d + 1]

RECURSIVE DateFrom(_, _)
DateFrom(y, d) ==
    IF d >= DaysInYear(y) THEN DateFrom(y + 1, d - DaysInYear(y))
    ELSE MonthFrom(y, 1, d)

\* the datetime value that lies t seconds after the epoch
Datetime(t) ==
    LET date == DateFrom(Epoch.year, t \div 86400)
    IN  [year |-> date.year, month |-> date.month, day |-> date.day,
         hour |-> (t \div 3600) % 24, minute |-> (t \div 60) % 60, second |-> t % 60]

RECURSIVE DaysBeforeMonth(_, _)
DaysBeforeMonth(y, m) ==
    IF m = 1 THEN 0 ELSE DaysBeforeMonth(y, m - 1) + DaysInMonth(y, m - 1)

RECURSIVE DaysBeforeYear(_)
DaysBeforeYear(y) ==
    IF y = Epoch.year THEN 0 ELSE DaysBeforeYear(y - 1) + DaysInYear(y - 1)

\* index.py 220-223: cron(minute hour day month ? year)
CronExpression(future_time) ==
    [minute |-> future_time.minute, hour |-> future_time.hour, day |-> future_time.day,
     month |-> future_time.month, dow |-> "?", year |-> future_time.year]

\* EventBridge: the instant (seconds after the epoch) at which a rule with
\* this one-shot cron expression fires: second 0 of the named minute
CronInstant(cron) ==
    (DaysBeforeYear(cron.year) + DaysBeforeMonth(cron.year, cron.month) + cron.day - 1) * 86400
        + cron.hour * 3600 + cron.minute * 60

\* the values datetime.utcnow() takes in schedule_retry: on a minute boundary,
\* in the middle and in the last second of a minute, before midnight of a
\* leap day and shortly before the end of a year
CreationTimes ==
    {0, 30, 59, 58 * 86400 + 86399, 59 * 86400 + 86399, 365 * 86400 + 86130}

\* random.randint(1, 600)
Delays == MinDelay..MaxDelay

-----------------------------------------------------------------------------
(* Strings as sequences of characters: str.strip and str.replace *)

Whitespace == {" ", "\t"}

RECURSIVE LStrip(_)
LStrip(s) == IF s # <<>> /\ Head(s) \in Whitespace THEN LStrip(Tail(s)) ELSE s

RECURSIVE RStrip(_)
RStrip(s) ==
    IF s # <<>> /\ s[Len(s)] \in Whitespace THEN RStrip(SubSeq(s, 1, Len(s) - 1)) ELSE s

\* str.strip()
Strip(s) == RStrip(LStrip(s))

\* str.replace(" ", "%20")
RECURSIVE ReplaceSpaces(_)
ReplaceSpaces(s) ==
    IF s = <<>> THEN <<>>
    ELSE (IF Head(s) = " " THEN <<"%", "2", "0">> ELSE <<Head(s)>>) \o ReplaceSpaces(Tail(s))

\* the characters a URL handed back by the object store is made of
UrlChars == {"u", " ", "\t"}

PresignedUrls == UNION {[1..n -> UrlChars] : n \in 0..MaxUrlLen}

-----------------------------------------------------------------------------
(* Python strings that may hold several lines.  Such a string is the        *)
(* sequence of its lines (the string split at "\n"); a line is its leading  *)
(* whitespace, its content and its trailing whitespace; the content is the  *)
(* sequence of the pieces it was put together from (one piece for a         *)
(* literal, one per interpolated value for an f-string) and is empty for a  *)
(* line of whitespace only.                                                 *)

Line(lead, s, trail) == [lead |-> lead, s |-> s, trail |-> trail]

\* a line without surrounding whitespace
Ln(s) == Line(<<>>, s, <<>>)

\* a string of one line
Str(s) == <<Ln(s)>>

\* line.strip()
StripLine(line) == line.s

-----------------------------------------------------------------------------
(* Trigger events.  A nested key a.b is the field a_b; the top-level key     *)
(* "detail-type" is the field detail_type.                                  *)

ACCOUNT_ID == "123456789012"

REGION == "us-east-1"

FINDING_ID == "test_finding_id"

DETECTOR_ID == "sample-detector"

\* tests/conftest.py EVENT
EVENT ==
    [version |-> "0", id |-> "sample-event-id", detail_type |-> "GuardDuty Finding",
     source |-> "aws.guardduty", account |-> ACCOUNT_ID, time |-> "2024-10-18T11:40:01Z",
     region |-> REGION, resources |-> <<>>,
     detail_schemaVersion |-> "2.0", detail_accountId |-> ACCOUNT_ID,
     detail_region |-> REGION, detail_id |-> FINDING_ID, detail_partition |-> "aws",
     detail_arn |-> "arn:aws:guardduty:us-east-1:123456789012:detector/sample-detector/finding/test_finding_id",
     detail_severity |-> "5.0", detail_service_serviceName |-> "guardduty",
     detail_service_detectorId |-> DETECTOR_ID]

\* one name for every retry rule
RuleNameShared(n) == <<RULE_PREFIX, 0>>

\* f"RetryLambdaInvocation-{event_id}", event_id the n-th uuid4 generated
RuleName(n) == <<RULE_PREFIX, n>>

\* the replay built without the schema version of the event
ReplayPayloadWithoutVersion(e, account_id, region, finding_id, detector_id, rule_name) ==
    [id |-> e.id, detail_type |-> e.detail_type,
     source |-> e.source, account |-> account_id, time |-> e.time,
     region |-> region, resources |-> e.resources,
     detail_schemaVersion |-> e.detail_schemaVersion, detail_accountId |-> account_id,
     detail_region |-> region, detail_partition |-> e.detail_partition,
     detail_id |-> finding_id, detail_service_detectorId |-> detector_id,
     detail_retryRuleName |-> rule_name]

\* the replay keeping the marker its event came with
ReplayPayloadOldMarker(e, account_id, region, finding_id, detector_id, rule_name) ==
    [version |-> e.version, id |-> e.id, detail_type |-> e.detail_type,
     source |-> e.source, account |-> account_id, time |-> e.time,
     region |-> region, resources |-> e.resources,
     detail_schemaVersion |-> e.detail_schemaVersion, detail_accountId |-> account_id,
     detail_region |-> region, detail_partition |-> e.detail_partition,
     detail_id |-> finding_id, detail_service_detectorId |-> detector_id,
     detail_retryRuleName |-> Get(e, "detail_retryRuleName", rule_name)]

\* the replay built with the id of the event in place of the id of the finding
ReplayPayloadEventId(e, account_id, region, finding_id, detector_id, rule_name) ==
    [version |-> e.version, id |-> e.id, detail_type |-> e.detail_type,
     source |-> e.source, account |-> account_id, time |-> e.time,
     region |-> region, resources |-> e.resources,
     detail_schemaVersion |-> e.detail_schemaVersion, detail_accountId |-> account_id,
     detail_region |-> region, detail_partition |-> e.detail_partition,
     detail_id |-> e.id, detail_service_detectorId |-> detector_id,
     detail_retryRuleName |-> rule_name]

\* index.py 243-262: the Input of the target, before json.dumps
ReplayPayload(e, account_id, region, finding_id, detector_id, rule_name) ==
    [version |-> e.version, id |-> e.id, detail_type |-> e.detail_type,
     source |-> e.source, account |-> account_id, time |-> e.time,
     region |-> region, resources |-> e.resources,
     detail_schemaVersion |-> e.detail_schemaVersion, detail_accountId |-> account_id,
     detail_region |-> region, detail_partition |-> e.detail_partition,
     detail_id |-> finding_id, detail_service_detectorId |-> detector_id,
     detail_retryRuleName |-> rule_name]

\* the keys schedule_retry reads at 209-212, in that order
ScheduleKeys == <<"account", "region", "detail_id", "detail_service_detectorId">>

\* the further keys the replay payload reads at 245-257
PayloadKeys == {"version", "id", "detail_type", "source", "time", "resources",
                "detail_schemaVersion", "detail_partition"}

\* f"arn:aws:lambda:{region}:{account_id}:function:{context.function_name}"
LambdaArn(region, account_id) ==
    <<"arn:aws:lambda:", region, ":", account_id, ":function:", FUNCTION_NAME>>

\* the rule and its target as one successful schedule_retry leaves them
ScheduledRule(e, n, now, delay) ==
    [Name |-> RuleName(n),
     ScheduleExpression |-> CronExpression(Datetime(now + delay)),
     State |-> "ENABLED",
     Targets |-> {[Id |-> n, Arn |-> LambdaArn(e.region, e.account),
                   Input |-> JsonDumps(ReplayPayload(e, e.account, e.region, e.detail_id,
                                         e.detail_service_detectorId, RuleName(n)))]},
     createdAt |-> now]

\* the rule whose firing starts a replay run: created by an earlier, throttled run
PriorRule == ScheduledRule(EVENT, 0, 0, MaxDelay)

\* the events the platform hands to lambda_handler: the original event, events
\* lacking a key the code reads, an event with an empty finding id, and the
\* replay of the original event as a fired retry rule delivers it
TriggerEvents ==
    {EVENT,
     Without(EVENT, "detail_id"),
     Without(EVENT, "detail_service_detectorId"),
     Without(EVENT, "account"),
     Without(EVENT, "version"),
     [EVENT EXCEPT !.detail_id = ""]}
    \cup {JsonLoads(t.Input) : t \in PriorRule.Targets}

\* os.environ: both settings, or one of them unset
Environments ==
    LET full == [AI_REPORTS_BUCKET_NAME |-> S3_BUCKET_NAME,
                 AI_REPORTS_TOPIC_ARN |-> SNS_TOPIC_ARN]
    IN  {full, Without(full, "AI_REPORTS_BUCKET_NAME"), Without(full, "AI_REPORTS_TOPIC_ARN")}

\* os.getenv: "" stands for None
Getenv(e, k) == Get(e, k, "")

-----------------------------------------------------------------------------
(* The values a boto3 response holds besides the fields lambda_handler       *)
(* reads: a value is a record of its Python type (kind) and its content.     *)
(* A number is counted in tenths; the entries of a dict are a function of    *)
(* its keys.                                                                 *)

PyDict(entries) == [kind |-> "dict", entries |-> entries]

PyList(items) == [kind |-> "list", items |-> items]

PyDecimal(n) == [kind |-> "Decimal", tenths |-> n]

PyFloat(n) == [kind |-> "float", tenths |-> n]

\* a datetime t seconds after the epoch, with tzinfo UTC or naive
PyDatetime(t, aware) == [kind |-> "datetime", t |-> t, aware |-> aware]

PyInt(n) == [kind |-> "int", n |-> n]

\* a str, as the sequence of its pieces
PyStr(s) == [kind |-> "str", s |-> s]

\* a number below 100 in two digits
TwoDigits(n) == IF n < 10 THEN "0" \o ToString(n) ELSE ToString(n)

\* datetime.isoformat(): YYYY-MM-DDTHH:MM:SS, then +00:00 for an aware value
IsoFormat(value) ==
    LET d == Datetime(value.t) IN
    <<ToString(d.year), "-", TwoDigits(d.month), "-", TwoDigits(d.day), "T",
      TwoDigits(d.hour), ":", TwoDigits(d.minute), ":", TwoDigits(d.second)>>
        \o (IF value.aware THEN <<"+00:00">> ELSE <<>>)

\* convert_to_json_serializable that does not go into dicts and lists
ConvertToJsonSerializableShallow(data) ==
    IF data.kind = "Decimal" THEN PyFloat(data.tenths)
    ELSE IF data.kind = "datetime" THEN PyStr(IsoFormat(data))
    ELSE data

\* index.py 20-31
RECURSIVE ConvertToJsonSerializable(_)
ConvertToJsonSerializable(data) ==
    IF data.kind = "dict"
    THEN PyDict([k \in DOMAIN data.entries |-> ConvertToJsonSerializable(data.entries[k])])
    ELSE IF data.kind = "list"
    THEN PyList([i \in 1..Len(data.items) |-> ConvertToJsonSerializable(data.items[i])])
    ELSE IF data.kind = "Decimal" THEN PyFloat(data.tenths)
    ELSE IF data.kind = "datetime" THEN PyStr(IsoFormat(data))
    ELSE data

\* the keys of a finding and of a member whose values the model keeps as
\* they are: they are str and numbers, which index.py 31 returns unchanged
FindingKeys == {"Id", "Severity", "Type", "AccountId", "Region"}

MemberKeys == {"AccountId", "Email"}

\* index.py 22-23 for a dict with such keys: every other key holds a value
ConvertDict(d, plain) ==
    [k \in DOMAIN d |-> IF k \in plain THEN d[k] ELSE ConvertToJsonSerializable(d[k])]

\* index.py 24-25 for the list of members
ConvertMembers(members) ==
    [i \in 1..Len(members) |-> ConvertDict(members[i], MemberKeys)]

-----------------------------------------------------------------------------
(* Answers of the collaborators *)

\* GuardDuty severities, in tenths: below, at and above the threshold
Severities == {39, 40, 60}

\* tests/conftest.py TEST_FINDING
Finding(finding_id, severity) ==
    [Id |-> finding_id, Severity |-> severity,
     Type |-> "UnauthorizedAccess:EC2/SSHBruteForce",
     AccountId |-> ACCOUNT_ID, Region |-> REGION]

GRAPH_ARN == "test_graph_arn"

\* the AnalysisResult of the spec's scenario, the text of the tests, a text
\* with a header of the second kind, a header inside whitespace, two blank
\* lines in a row and a header in lower case, the literal "rescheduled" and
\* the empty string
AnalysisTexts ==
    {Str(<<"Test AI Insights">>),
     <<Ln(<<"Analysis:">>), Ln(<<"Breach detected.">>), Ln(<<>>),
       Ln(<<"Remediation Actions:">>), Ln(<<"Rotate keys.">>)>>,
     <<Ln(<<"Attempt Status:">>), Line(<<" ">>, <<"Analysis:">>, <<" ", "\t">>),
       Ln(<<>>), Line(<<" ">>, <<>>, <<>>),
       Ln(<<"analysis:">>), Ln(<<"Blocked.">>)>>,
     Str(<<"rescheduled">>),
     Str(<<>>)}

\* the parsed body of an invoke_model response
AnalysisResponses ==
    {[content |-> <<[type |-> "text", text |-> t]>>] : t \in AnalysisTexts}
    \cup {[content |-> <<[type |-> "text"]>>], [content |-> <<>>], [id |-> "msg"]}

\* ai_insights is a text or None
Text(lines) == [none |-> FALSE, lines |-> lines]

None == [none |-> TRUE, lines |-> <<>>]

\* the value schedule_retry returns at 268
RESCHEDULED == Text(Str(<<"rescheduled">>))

\* index.py 187: ai_insights.get("content", [{}])[0].get("text", "");
\* an empty content list has no element 0
ExtractText(response) ==
    IF ~Has(response, "content") THEN [raised |-> FALSE, text |-> Str(<<>>)]
    ELSE IF response.content = <<>> THEN [raised |-> TRUE, text |-> Str(<<>>)]
    ELSE [raised |-> FALSE, text |-> Get(response.content[1], "text", Str(<<>>))]

-----------------------------------------------------------------------------
(* generate_pdf: the document as the sequence of the blocks written to it *)

IsBlank(line) == line.s = <<>>

RECURSIVE DropLeadingBlank(_)
DropLeadingBlank(lines) ==
    IF lines # <<>> /\ IsBlank(Head(lines)) THEN DropLeadingBlank(Tail(lines)) ELSE lines

RECURSIVE DropTrailingBlank(_)
DropTrailingBlank(lines) ==
    IF lines # <<>> /\ IsBlank(lines[Len(lines)])
    THEN DropTrailingBlank(SubSeq(lines, 1, Len(lines) - 1)) ELSE lines

\* ai_insights.strip(): the whitespace at both ends of the whole text goes
StripText(lines) ==
    LET kept == DropTrailingBlank(DropLeadingBlank(lines))
    IN  IF kept = <<>> THEN Str(<<>>)
        ELSE [i \in 1..Len(kept) |->
                Line(IF i = 1 THEN <<>> ELSE kept[i].lead, kept[i].s,
                     IF i = Len(kept) THEN <<>> ELSE kept[i].trail)]

\* re.split(r"\n\s*\n", text): the groups of lines between runs of blank lines
RECURSIVE SplitSections(_, _)
SplitSections(lines, section) ==
    IF lines = <<>> THEN <<section>>
    ELSE IF IsBlank(Head(lines))
         THEN <<section>> \o SplitSections(DropLeadingBlank(lines), <<>>)
         ELSE SplitSections(Tail(lines), Append(section, Head(lines)))

H3Headers == {<<"Analysis:">>, <<"Remediation Actions:">>, <<"Recommended Actions:">>}

H4Headers == {<<"Entities Involved:">>, <<"Security Group Impact:">>, <<"Attempt Status:">>}

\* the line compared without line.strip()
LineBlockExact(line) ==
    IF line \in {Ln(h) : h \in H3Headers}
    THEN [op |-> "cell", font |-> <<"Arial", "B", "12">>, txt |-> StripLine(line)]
    ELSE IF line \in {Ln(h) : h \in H4Headers}
    THEN [op |-> "cell", font |-> <<"Arial", "B", "10">>, txt |-> StripLine(line)]
    ELSE [op |-> "multi_cell", font |-> <<"Arial", "", "10">>, txt |-> StripLine(line)]

\* index.py 347-359: one block per line
LineBlock(line) ==
    IF StripLine(line) \in H3Headers
    THEN [op |-> "cell", font |-> <<"Arial", "B", "12">>, txt |-> StripLine(line)]
    ELSE IF StripLine(line) \in H4Headers
    THEN [op |-> "cell", font |-> <<"Arial", "B", "10">>, txt |-> StripLine(line)]
    ELSE [op |-> "multi_cell", font |-> <<"Arial", "", "10">>, txt |-> StripLine(line)]

\* the sections written without the space between them
SectionBlocksUnseparated(section) ==
    [i \in 1..Len(section) |-> LineBlock(section[i])]

\* index.py 344-361: the blocks of a section, then pdf.ln(5)
SectionBlocks(section) ==
    [i \in 1..Len(section) |-> LineBlock(section[i])]
        \o <<[op |-> "ln", font |-> <<"Arial", "", "10">>, txt |-> <<"5">>]>>

RECURSIVE Flatten(_)
Flatten(seqs) == IF seqs = <<>> THEN <<>> ELSE Head(seqs) \o Flatten(Tail(seqs))

\* index.py 342: the empty text is one section of one empty line
Sections(lines) ==
    LET text == StripText(lines)
    IN  IF text = Str(<<>>) THEN <<text>> ELSE SplitSections(text, <<>>)

InsightBlocks(lines) ==
    LET sections == Sections(lines)
    IN  Flatten([i \in 1..Len(sections) |-> SectionBlocks(sections[i])])

\* the summary block with the default the links use
FindingDetailsUnknown(f) ==
    <<<<"Finding Type: ", Get(f, "Type", "unknown")>>,
      <<"Finding ID: ", Get(f, "Id", "unknown")>>,
      <<"Severity: ", IF Has(f, "Severity") THEN ToString(f.Severity) ELSE "unknown">>,
      <<"Account ID: ", Get(f, "AccountId", "unknown")>>,
      <<"Region: ", Get(f, "Region", "unknown")>>>>

\* index.py 301-307
FindingDetails(f) ==
    <<<<"Finding Type: ", Get(f, "Type", "N/A")>>,
      <<"Finding ID: ", Get(f, "Id", "N/A")>>,
      <<"Severity: ", IF Has(f, "Severity") THEN ToString(f.Severity) ELSE "N/A">>,
      <<"Account ID: ", Get(f, "AccountId", "N/A")>>,
      <<"Region: ", Get(f, "Region", "N/A")>>>>

\* index.py 314-317
GuarddutyLink(region, finding_id) ==
    <<"https://", region, ".console.aws.amazon.com/guardduty/home?region=", region,
      "#/findings?search=id%3D", finding_id, "&macros=current">>

\* index.py 318-321
DetectiveLink(region, finding_id) ==
    <<"https://", region, ".console.aws.amazon.com/detective/home?region=", region,
      "#search?searchType=Finding&searchText=", finding_id>>

\* index.py 276-382; insights is a text, never None here
GeneratePdf(insights, f, now) ==
    [title |-> <<"GuardDuty Finding Report", Get(f, "Type", "N/A")>>,
     generated |-> now,
     details |-> FindingDetails(f),
     links |-> <<GuarddutyLink(Get(f, "Region", "us-east-1"), Get(f, "Id", "unknown")),
                 DetectiveLink(Get(f, "Region", "us-east-1"), Get(f, "Id", "unknown"))>>,
     insights |-> InsightBlocks(insights),
     conclusion |-> "Conclusion and Recommended Actions"]

\* the values datetime.utcnow() takes in generate_pdf
GenerationTimes == {0, 30}

\* f"{finding_id}.pdf"
FileName(finding_id) == <<finding_id, ".pdf">>

-----------------------------------------------------------------------------
(* send_sns_notification: the message handed to publish *)

\* the URL stripped but its spaces left alone
EncodeUrlStripOnly(url) == Strip(url)

\* index.py 410
EncodeUrl(url) == ReplaceSpaces(Strip(url))

\* index.py 416-425
MessageStructure(url) ==
    [default |-> "New GuardDuty finding with enriched PDF. Click the link to download.",
     email |-> [text |-> "New GuardDuty finding. Enriched PDF with AI remediation's can be downloaded here: ",
                url |-> EncodeUrl(url)]]

\* index.py 428-433
PublishRequest(url, topic_arn) ==
    [TopicArn |-> topic_arn, Message |-> JsonDumps(MessageStructure(url)),
     Subject |-> "GuardDuty Finding Enrichment Report", MessageStructure |-> "json"]

-----------------------------------------------------------------------------
(* The state after the platform has invoked lambda_handler *)

Runs == {"run"}

NoResult == [statusCode |-> 0, body |-> JsonDumps(Str(<<>>))]

NoSchedule == [rule_name |-> RuleName(0), event_id |-> 0, now |-> 0,
               cron_expression |-> CronExpression(Datetime(0))]

NoFinding == [Id |-> ""]

\* no document rendered yet
NoDocument == [title |-> <<>>]

Init ==
    /\ pc = [r \in Runs |-> "start"]
    /\ event \in [Runs -> TriggerEvents]
    /\ env \in [Runs -> Environments]
    /\ finding = [r \in Runs |-> NoFinding]
    /\ detective_entities = [r \in Runs |-> <<>>]
    /\ ai_insights = [r \in Runs |-> None]
    /\ sched = [r \in Runs |-> NoSchedule]
    /\ pdf_buffer = [r \in Runs |-> NoDocument]
    /\ pre_signed_url = [r \in Runs |-> <<>>]
    /\ result = [r \in Runs |-> NoResult]
    /\ exit = [r \in Runs |-> "running"]
    /\ calls = [r \in Runs |-> <<>>]
    /\ errors = [r \in Runs |-> <<>>]
    \* a replay event comes from a rule that exists
    /\ rules = {rule \in {PriorRule} :
                    \E r \in Runs : \E t \in rule.Targets : JsonLoads(t.Input) = event[r]}
    /\ objects = {}
    /\ published = <<>>
    /\ uuids = Cardinality(rules)

-----------------------------------------------------------------------------
(* Leaving lambda_handler *)

\* a collaborator call and how it came out: "ok", or "empty" (no finding, no
\* graph, no content), "throttled" or "error"
Call(client, op, args, outcome) ==
    [client |-> client, op |-> op, args |-> args, outcome |-> outcome]

Made(r, call) == calls' = [calls EXCEPT ![r] = Append(@, call)]

\* a call kept together with the response it was answered with
Answered(call, response) ==
    [client |-> call.client, op |-> call.op, args |-> call.args,
     outcome |-> call.outcome, response |-> response]

\* a return statement of lambda_handler
Return(r, how, status, body, logged) ==
    /\ pc' = [pc EXCEPT ![r] = "done"]
    /\ exit' = [exit EXCEPT ![r] = how]
    /\ result' = [result EXCEPT ![r] = [statusCode |-> status, body |-> JsonDumps(body)]]
    /\ errors' = [errors EXCEPT ![r] = @ \o logged]

\* the except clause answering with another status
FailedBadRequest(r, e, logged) ==
    Return(r, "except", 400, Str(<<"Error in processing: ">> \o e),
           logged \o <<<<"Error in processing: ">> \o e>>)

\* lambda_handler without its except clause: the exception leaves the handler
FailedEscapes(r, e, logged) ==
    /\ pc' = [pc EXCEPT ![r] = "raised"]
    /\ exit' = [exit EXCEPT ![r] = "raise"]
    /\ errors' = [errors EXCEPT ![r] = @ \o logged]
    /\ UNCHANGED result

\* index.py 517-519: the except clause of lambda_handler; e is str(e)
Failed(r, e, logged) ==
    Return(r, "except", 500, Str(<<"Error in processing: ">> \o e),
           logged \o <<<<"Error in processing: ">> \o e>>)

\* index.py 461, 464: an exception that leaves lambda_handler
Raised(r, e) ==
    /\ pc' = [pc EXCEPT ![r] = "raised"]
    /\ exit' = [exit EXCEPT ![r] = "raise"]
    /\ errors' = [errors EXCEPT ![r] = Append(@, e)]
    /\ UNCHANGED result

\* the run goes on to its next collaborator call
Goto(r, next, logged) ==
    /\ pc' = [pc EXCEPT ![r] = next]
    /\ errors' = [errors EXCEPT ![r] = @ \o logged]
    /\ UNCHANGED <<exit, result>>

-----------------------------------------------------------------------------
(* lambda_handler, one action per collaborator call *)

\* a missing key taken for a finding that needs no processing
EventKeyErrorIgnored(r, key) == Return(r, "skip", 200, Str(<<"Missing ", key>>), <<>>)

\* index.py 466-467, 517-519: event["detail"]["id"] and
\* event["detail"]["service"]["detectorId"] raise KeyError inside the try
EventKeyError(r, key) == Failed(r, <<key>>, <<>>)

\* index.py 452-470: configuration and the two keys read from the event
LambdaHandlerEntry(r) ==
    /\ pc[r] = "start"
    /\ IF Getenv(env[r], "AI_REPORTS_BUCKET_NAME") = ""
       THEN Raised(r, <<"Environment variable AI_REPORTS_BUCKET_NAME is not set">>)
       ELSE IF Getenv(env[r], "AI_REPORTS_TOPIC_ARN") = ""
       THEN Raised(r, <<"Environment variable AI_REPORTS_TOPIC_ARN is not set">>)
       ELSE IF ~Has(event[r], "detail_id")
       THEN EventKeyError(r, "'id'")
       ELSE IF ~Has(event[r], "detail_service_detectorId")
       THEN EventKeyError(r, "'detectorId'")
       ELSE Goto(r, "get_findings", <<>>)
    /\ UNCHANGED <<event, env, pdf_buffer, finding, detective_entities, ai_insights, sched,
                   pre_signed_url, calls, rules, objects, published, uuids>>

\* the comparison turned around
BelowThresholdReversed(f) == f.Severity > SeverityThreshold

\* the threshold itself taken as too low
BelowThresholdInclusive(f) == f.Severity <= SeverityThreshold

\* index.py 474: finding["Severity"] < 4.0
BelowThreshold(f) == f.Severity < SeverityThreshold

\* index.py 472-483 with get_guardduty_finding 49-59
GetGuarddutyFinding(r) ==
    LET finding_id == event[r].detail_id
        detector_id == event[r].detail_service_detectorId
        args == [DetectorId |-> detector_id, FindingIds |-> <<finding_id>>]
    IN
    /\ pc[r] = "get_findings"
    /\ \/ \E severity \in Severities :
            LET f == Finding(finding_id, severity) IN
            /\ Made(r, Call("guardduty", "get_findings", args, "ok"))
            /\ finding' = [finding EXCEPT ![r] = f]
            /\ IF BelowThreshold(f)
               THEN Return(r, "skip", 200,
                           Str(<<"Finding ", finding_id, " has severity of ",
                                 ToString(f.Severity), " not processing">>), <<>>)
               ELSE Goto(r, "list_graphs", <<>>)
       \/ /\ Made(r, Call("guardduty", "get_findings", args, "empty"))
          /\ Failed(r, <<"list index out of range">>,
                    <<<<"Error retrieving GuardDuty finding: ", "list index out of range">>>>)
          /\ UNCHANGED finding
       \/ /\ Made(r, Call("guardduty", "get_findings", args, "error"))
          /\ Failed(r, <<"ClientError">>,
                    <<<<"Error retrieving GuardDuty finding: ", "ClientError">>>>)
          /\ UNCHANGED finding
    /\ UNCHANGED <<event, env, pdf_buffer, detective_entities, ai_insights, sched, pre_signed_url,
                   rules, objects, published, uuids>>

\* get_graph_arn going on without a graph
NoGraphFoundIgnored(r) == Goto(r, "list_members", <<>>)

\* index.py 66-67, 71-73: an empty GraphList raises, is logged and raised again
NoGraphFound(r) ==
    Failed(r, <<"No graphs found in Amazon Detective.">>,
           <<<<"Error retrieving Amazon Detective graph ARN: ",
               "No graphs found in Amazon Detective.">>>>)

\* index.py 486 with get_graph_arn 62-73
GetGraphArn(r) ==
    /\ pc[r] = "list_graphs"
    /\ \/ /\ Made(r, Call("detective", "list_graphs", [none |-> TRUE], "ok"))
          /\ Goto(r, "list_members", <<>>)
       \/ /\ Made(r, Call("detective", "list_graphs", [none |-> TRUE], "empty"))
          /\ NoGraphFound(r)
       \/ /\ Made(r, Call("detective", "list_graphs", [none |-> TRUE], "error"))
          /\ Failed(r, <<"ClientError">>,
                    <<<<"Error retrieving Amazon Detective graph ARN: ", "ClientError">>>>)
    /\ UNCHANGED <<event, env, pdf_buffer, finding, detective_entities, ai_insights, sched,
                   pre_signed_url, rules, objects, published, uuids>>

\* tests/conftest.py MEMBER_DETAILS
MEMBER_DETAILS == <<[AccountId |-> ACCOUNT_ID, Email |-> "test@example.com"]>>

\* the answers of list_members: the members, the members with a continuation
\* token, and an answer without the MemberDetails key
ListMembersResponses ==
    {[MemberDetails |-> MEMBER_DETAILS],
     [MemberDetails |-> MEMBER_DETAILS, NextToken |-> "token"],
     [NextToken |-> "token"]}

\* index.py 489-493 with get_all_detective_entities 99-134, for the answers
\* of list_members drawn from responses
GetAllDetectiveEntitiesFrom(r, responses) ==
    LET args == [GraphArn |-> GRAPH_ARN] IN
    /\ pc[r] = "list_members"
    /\ \/ \E response \in responses :
            /\ Made(r, Answered(Call("detective", "list_members", args, "ok"), response))
            /\ finding' = [finding EXCEPT ![r] = ConvertDict(@, FindingKeys)]
            /\ detective_entities' =
                   [detective_entities EXCEPT ![r] =
                        ConvertMembers(Get(response, "MemberDetails", <<>>))]
            /\ Goto(r, "invoke_model", <<>>)
       \/ /\ Made(r, Call("detective", "list_members", args, "error"))
          /\ Failed(r, <<"ClientError">>,
                    <<<<"AWS API error when retrieving entities from Detective: ",
                        "ClientError">>>>)
          /\ UNCHANGED <<finding, detective_entities>>
    /\ UNCHANGED <<event, env, pdf_buffer, ai_insights, sched, pre_signed_url,
                   rules, objects, published, uuids>>

GetAllDetectiveEntities(r) == GetAllDetectiveEntitiesFrom(r, ListMembersResponses)

\* lambda_handler without the test at 499
AfterAnalysisUnchecked(r, insights, logged) ==
    /\ ai_insights' = [ai_insights EXCEPT ![r] = insights]
    /\ IF insights.none
       THEN Failed(r, <<"'NoneType' object has no attribute 'strip'">>, logged)
       ELSE Goto(r, "put_object", logged)

\* index.py 499-502: what lambda_handler does with the value that
\* invoke_bedrock_model returned, up to the upload
AfterAnalysis(r, insights, logged) ==
    /\ ai_insights' = [ai_insights EXCEPT ![r] = insights]
    /\ IF insights = RESCHEDULED
       THEN Return(r, "scheduled", 200, Str(<<"Event scheduled.">>), logged)
       ELSE IF insights.none
       THEN Failed(r, <<"'NoneType' object has no attribute 'strip'">>, logged)
       ELSE Goto(r, "put_object", logged)

\* the error codes a ClientError of invoke_model carries
BedrockErrorCodes == {"ThrottlingException", "ValidationException"}

\* every ClientError taken for a rate limit
IsThrottlingAny(code) == code \in BedrockErrorCodes

\* index.py 189
IsThrottling(code) == code = "ThrottlingException"

BEDROCK_MODEL_ID == "anthropic.claude-3-5-sonnet-20240620-v1:0"

\* index.py 142-159: the messages; the content is an f-string with the two
\* documents of json.dumps among its pieces
Messages(f, entities) ==
    PyList(<<PyDict([role |-> PyStr(<<"user">>),
                     content |->
                        [kind |-> "fstr",
                         parts |-> <<"You are a cybersecurity assistant that specializes in providing actionable solutions for security threats detected by AWS services. Here is the GuardDuty finding and relevant enrichment data from Amazon Detective: ",
                                     JsonDumps(f),
                                     ". Detective entities involved: ",
                                     JsonDumps(entities),
                                     ". Based on this information,determine if this was a successful breach or a blocked attempt. Also, provide information on the entities involved and if a security group is impacted and needs intervention.Also, provide specific actions I should take to remediate this issue and prevent future occurrences. The actions should come with a section header containing \"Remediation Actions:\"">>]])>>)

\* index.py 162-166
DefaultBodyArgs(f, entities) ==
    [messages |-> Messages(f, entities), max_tokens |-> PyInt(5000), temperature |-> PyFloat(7)]

\* index.py 170-171: the names of environment variables that start with
\* 'body_args_', each with what key[10:] leaves of it
BodyArgName ==
    [body_args_anthropic_version |-> "anthropic_version",
     body_args_top_k |-> "top_k",
     body_args_stop_sequences |-> "stop_sequences",
     body_args_max_tokens |-> "max_tokens",
     body_args_messages |-> "messages"]

\* key.startswith('body_args_')
StartsWithBodyArgs(key) == key \in DOMAIN BodyArgName

\* json.loads: the texts, among those the settings take, that are JSON
\* documents, each with its value
JsonTexts == {"250", "100", "[]"}

JsonValue(text) ==
    IF text = "250" THEN PyInt(250) ELSE IF text = "100" THEN PyInt(100) ELSE PyList(<<>>)

\* index.py 173-176: the value parsed, or the string itself after JSONDecodeError
JsonLoadsOrText(value) ==
    IF value \in JsonTexts THEN JsonValue(value) ELSE PyStr(<<value>>)

\* index.py 162-176: the body arguments for the environment e
BodyArgs(e, f, entities) ==
    LET defaults == DefaultBodyArgs(f, entities)
        options == {key \in DOMAIN e : StartsWithBodyArgs(key)}
        named(n) == {key \in options : BodyArgName[key] = n}
    IN  [n \in DOMAIN defaults \cup {BodyArgName[key] : key \in options} |->
            IF named(n) # {}
            THEN JsonLoadsOrText(e[CHOOSE key \in named(n) : TRUE])
            ELSE defaults[n]]

\* schedule_retry giving up when the event is itself a replay
ScheduleRetryCapped(r) ==
    /\ uuids' = uuids + 1
    /\ IF Has(event[r], "detail_retryRuleName")
       THEN /\ Failed(r, <<"Retry limit reached">>, <<>>)
            /\ UNCHANGED sched
       ELSE \E now \in CreationTimes, delay_seconds \in Delays :
            /\ sched' = [sched EXCEPT ![r] =
                    [rule_name |-> RuleName(uuids), event_id |-> uuids, now |-> now,
                     cron_expression |-> CronExpression(Datetime(now + delay_seconds))]]
            /\ Goto(r, "put_rule", <<>>)

\* the analysis called again at once in place of schedule_retry
ScheduleRetrySynchronously(r) ==
    /\ Goto(r, "invoke_model", <<<<"Retrying after ThrottlingException">>>>)
    /\ UNCHANGED <<sched, uuids>>

\* index.py 203-227: schedule_retry up to its first call
ScheduleRetryEntry(r) ==
    LET e == event[r]
        missing == {i \in DOMAIN ScheduleKeys : ~Has(e, ScheduleKeys[i])}
        first == CHOOSE i \in missing : \A j \in missing : i <= j
    IN
    /\ uuids' = uuids + 1
    /\ IF missing # {}
       THEN \* the time and the delay drawn at 203-204 are not used
            /\ Failed(r, <<"Invalid event structure">>,
                      <<<<"Missing expected key in event: ", ScheduleKeys[first]>>>>)
            /\ UNCHANGED sched
       ELSE \E now \in CreationTimes, delay_seconds \in Delays :
            /\ sched' = [sched EXCEPT ![r] =
                    [rule_name |-> RuleName(uuids), event_id |-> uuids, now |-> now,
                     cron_expression |-> CronExpression(Datetime(now + delay_seconds))]]
            /\ Goto(r, "put_rule", <<>>)

\* index.py 496-502 with invoke_bedrock_model 137-197
InvokeBedrockModel(r) ==
    LET args == [modelId |-> Get(env[r], "BEDROCK_MODEL_ID", BEDROCK_MODEL_ID),
                 accept |-> "application/json",
                 body |-> JsonDumps(BodyArgs(env[r], finding[r], detective_entities[r]))]
    IN
    /\ pc[r] = "invoke_model"
    /\ \/ \E response \in AnalysisResponses :
            LET text == ExtractText(response) IN
            IF text.raised
            THEN /\ Made(r, Call("bedrock-runtime", "invoke_model", args, "empty"))
                 /\ Failed(r, <<"list index out of range">>,
                           <<<<"Unexpected error: ", "list index out of range">>>>)
                 /\ UNCHANGED <<ai_insights, sched, uuids>>
            ELSE /\ Made(r, Call("bedrock-runtime", "invoke_model", args, "ok"))
                 /\ AfterAnalysis(r, Text(text.text), <<>>)
                 /\ UNCHANGED <<sched, uuids>>
       \/ \E code \in BedrockErrorCodes :
            /\ Made(r, Call("bedrock-runtime", "invoke_model", args,
                            IF code = "ThrottlingException" THEN "throttled" ELSE "error"))
            /\ IF IsThrottling(code)
               THEN /\ ScheduleRetryEntry(r)
                    /\ UNCHANGED ai_insights
               ELSE /\ Failed(r, <<"ClientError: ", code>>,
                              <<<<"Error performing AI analysis with Bedrock: ", code>>>>)
                    /\ UNCHANGED <<ai_insights, sched, uuids>>
       \/ /\ Made(r, Call("bedrock-runtime", "invoke_model", args, "error"))
          /\ Failed(r, <<"Exception">>, <<<<"Unexpected error: ", "Exception">>>>)
          /\ UNCHANGED <<ai_insights, sched, uuids>>
    /\ UNCHANGED <<event, env, pdf_buffer, finding, detective_entities, pre_signed_url,
                   rules, objects, published>>

\* EventBridge put_rule: creates the rule or replaces the rule of that name
WithRule(rs, rule) == {x \in rs : x.Name # rule.Name} \cup {rule}

\* index.py 229-233 and the evaluation of the arguments of put_targets 236-264
PutRule(r) ==
    LET args == [Name |-> sched[r].rule_name,
                 ScheduleExpression |-> sched[r].cron_expression, State |-> "ENABLED"]
    IN
    /\ pc[r] = "put_rule"
    /\ \/ /\ Made(r, Call("events", "put_rule", args, "ok"))
          /\ rules' = WithRule(rules, [Name |-> args.Name,
                                       ScheduleExpression |-> args.ScheduleExpression,
                                       State |-> args.State, Targets |-> {},
                                       createdAt |-> sched[r].now])
          /\ IF PayloadKeys \subseteq DOMAIN event[r]
             THEN /\ Goto(r, "put_targets", <<>>)
                  /\ UNCHANGED ai_insights
             ELSE \* KeyError, caught at 272: schedule_retry returns None
                  AfterAnalysis(r, None, <<<<"An unexpected error occurred: ", "KeyError">>>>)
       \/ /\ Made(r, Call("events", "put_rule", args, "error"))
          /\ UNCHANGED rules
          \* ClientError, caught at 270: schedule_retry returns None
          /\ AfterAnalysis(r, None, <<<<"Failed to schedule retry: ", "ClientError">>>>)
    /\ UNCHANGED <<event, env, pdf_buffer, finding, detective_entities, sched, pre_signed_url,
                   objects, published, uuids>>

\* EventBridge put_targets: adds the targets to the rule of that name
WithTargets(rs, name, targets) ==
    {IF x.Name = name THEN [x EXCEPT !.Targets = @ \cup targets] ELSE x : x \in rs}

\* index.py 237-268
PutTargets(r) ==
    LET e == event[r]
        target == [Id |-> sched[r].event_id, Arn |-> LambdaArn(e.region, e.account),
                   Input |-> JsonDumps(ReplayPayload(e, e.account, e.region, e.detail_id,
                                         e.detail_service_detectorId, sched[r].rule_name))]
        args == [Rule |-> sched[r].rule_name, Targets |-> {target}]
    IN
    /\ pc[r] = "put_targets"
    /\ \/ /\ Made(r, Call("events", "put_targets", args, "ok"))
          /\ rules' = WithTargets(rules, args.Rule, args.Targets)
          /\ AfterAnalysis(r, RESCHEDULED, <<>>)
       \/ /\ Made(r, Call("events", "put_targets", args, "error"))
          /\ UNCHANGED rules
          /\ AfterAnalysis(r, None, <<<<"Failed to schedule retry: ", "ClientError">>>>)
    /\ UNCHANGED <<event, env, pdf_buffer, finding, detective_entities, sched, pre_signed_url,
                   objects, published, uuids>>

\* a store that keeps the object it has under a key
WithObjectKeepFirst(os, object) ==
    IF \E x \in os : x.Bucket = object.Bucket /\ x.Key = object.Key
    THEN os ELSE os \cup {object}

\* S3 put_object: writes the object, replacing the object under that key
WithObject(os, object) ==
    {x \in os : ~(x.Bucket = object.Bucket /\ x.Key = object.Key)} \cup {object}

\* index.py 502-507 with upload_pdf_to_s3 389-391
PutObject(r) ==
    \E now \in GenerationTimes :
        LET document == GeneratePdf(ai_insights[r].lines, finding[r], now)
            args == [Bucket |-> Getenv(env[r], "AI_REPORTS_BUCKET_NAME"),
                     Key |-> FileName(event[r].detail_id),
                     Body |-> document, ContentType |-> "application/pdf"]
        IN
        /\ pc[r] = "put_object"
        /\ pdf_buffer' = [pdf_buffer EXCEPT ![r] = document]
        /\ \/ /\ Made(r, Call("s3", "put_object", args, "ok"))
              /\ objects' = WithObject(objects, args)
              /\ Goto(r, "generate_presigned_url", <<>>)
           \/ /\ Made(r, Call("s3", "put_object", args, "error"))
              /\ UNCHANGED objects
              /\ Failed(r, <<"ClientError">>, <<<<"Error uploading PDF to S3: ", "ClientError">>>>)
        /\ UNCHANGED <<event, env, finding, detective_entities, ai_insights, sched,
                       pre_signed_url, rules, published, uuids>>

\* the lifetime of the link confused with the longest retry delay
PresignRequestShortLived(bucket_name, file_name) ==
    [ClientMethod |-> "get_object", Bucket |-> bucket_name, Key |-> file_name,
     ExpiresIn |-> MaxDelay]

\* index.py 394-398: the request for the pre-signed URL
PresignRequest(bucket_name, file_name) ==
    [ClientMethod |-> "get_object", Bucket |-> bucket_name, Key |-> file_name,
     ExpiresIn |-> ExpiresIn]

\* upload_pdf_to_s3 394-403
GeneratePresignedUrl(r) ==
    LET args == PresignRequest(Getenv(env[r], "AI_REPORTS_BUCKET_NAME"),
                               FileName(event[r].detail_id))
    IN
    /\ pc[r] = "generate_presigned_url"
    /\ \/ \E url \in PresignedUrls :
            /\ Made(r, Call("s3", "generate_presigned_url", args, "ok"))
            /\ pre_signed_url' = [pre_signed_url EXCEPT ![r] = url]
            /\ Goto(r, "publish", <<>>)
       \/ /\ Made(r, Call("s3", "generate_presigned_url", args, "error"))
          /\ UNCHANGED pre_signed_url
          /\ Failed(r, <<"ClientError">>, <<<<"Error uploading PDF to S3: ", "ClientError">>>>)
    /\ UNCHANGED <<event, env, pdf_buffer, finding, detective_entities, ai_insights, sched,
                   rules, objects, published, uuids>>

\* index.py 520
ReturnInsights(r, logged) == Return(r, "return", 200, ai_insights[r].lines, logged)

\* send_sns_notification without the raise at 438
PublishFailedSwallowed(r) ==
    ReturnInsights(r, <<<<"Error sending SNS notification: ", "ClientError">>>>)

\* a failed publish going on to the cleanup of the retry rule
PublishFailedCleans(r) ==
    IF Has(event[r], "detail_retryRuleName")
    THEN Goto(r, "delete_rule", <<<<"Error sending SNS notification: ", "ClientError">>>>)
    ELSE Failed(r, <<"ClientError">>, <<<<"Error sending SNS notification: ", "ClientError">>>>)

\* index.py 436-438: a failed publish is logged and raised again
PublishFailed(r) ==
    Failed(r, <<"ClientError">>, <<<<"Error sending SNS notification: ", "ClientError">>>>)

\* index.py 514-515: the marker, "" when the event carries none
RetryRuleName(e) == Get(e, "detail_retryRuleName", <<>>)

\* index.py 510-520 with send_sns_notification 406-438
SendSnsNotification(r) ==
    LET args == PublishRequest(pre_signed_url[r], Getenv(env[r], "AI_REPORTS_TOPIC_ARN")) IN
    /\ pc[r] = "publish"
    /\ \/ /\ Made(r, Call("sns", "publish", args, "ok"))
          /\ published' = Append(published, args)
          /\ IF RetryRuleName(event[r]) # <<>>
             THEN Goto(r, "delete_rule", <<>>)
             ELSE ReturnInsights(r, <<>>)
       \/ /\ Made(r, Call("sns", "publish", args, "error"))
          /\ UNCHANGED published
          /\ PublishFailed(r)
    /\ UNCHANGED <<event, env, pdf_buffer, finding, detective_entities, ai_insights, sched,
                   pre_signed_url, rules, objects, uuids>>

\* the operations of the boto3 clients that lambda_handler creates
ClientOperations ==
    [guardduty |-> {"get_findings"},
     detective |-> {"list_graphs", "list_members"},
     s3 |-> {"put_object", "generate_presigned_url"},
     sns |-> {"publish"},
     events |-> {"put_rule", "put_targets", "delete_rule", "remove_targets"}]

\* EventBridge delete_rule: a rule that still has targets cannot be deleted
CanDelete(rs, name) == \A x \in rs : x.Name = name => x.Targets = {}

\* remove_retry_event_rule raising again what it caught
DeleteFailedRaised(r, e) == Failed(r, <<e>>, <<<<"Error deleting EventBridge rule: ", e>>>>)

\* index.py 446-447: whatever delete_rule raises is logged and not raised again
DeleteFailed(r, e) == ReturnInsights(r, <<<<"Error deleting EventBridge rule: ", e>>>>)

\* remove_retry_event_rule 441-447 called with the given client, then 520
RemoveRetryEventRule(r, client, event_rule_name) ==
    LET args == [Name |-> event_rule_name] IN
    IF "delete_rule" \notin ClientOperations[client]
    THEN \* the attribute lookup client.delete_rule raises AttributeError: no call is made
         /\ DeleteFailed(r, "AttributeError")
         /\ UNCHANGED <<calls, rules>>
    ELSE IF CanDelete(rules, event_rule_name)
    THEN /\ Made(r, Call(client, "delete_rule", args, "ok"))
         /\ rules' = {x \in rules : x.Name # event_rule_name}
         /\ ReturnInsights(r, <<>>)
    ELSE /\ Made(r, Call(client, "delete_rule", args, "error"))
         /\ UNCHANGED rules
         /\ DeleteFailed(r, "ClientError")

\* index.py 514-520: the cleanup is handed sns_client
CleanRetryRule(r) ==
    /\ pc[r] = "delete_rule"
    /\ RemoveRetryEventRule(r, "sns", RetryRuleName(event[r]))
    /\ UNCHANGED <<event, env, pdf_buffer, finding, detective_entities, ai_insights, sched,
                   pre_signed_url, objects, published, uuids>>

-----------------------------------------------------------------------------

Next ==
    \/ \E r \in DOMAIN pc : LambdaHandlerEntry(r)
    \/ \E r \in DOMAIN pc : GetGuarddutyFinding(r)
    \/ \E r \in DOMAIN pc : GetGraphArn(r)
    \/ \E r \in DOMAIN pc : GetAllDetectiveEntities(r)
    \/ \E r \in DOMAIN pc : InvokeBedrockModel(r)
    \/ \E r \in DOMAIN pc : PutRule(r)
    \/ \E r \in DOMAIN pc : PutTargets(r)
    \/ \E r \in DOMAIN pc : PutObject(r)
    \/ \E r \in DOMAIN pc : GeneratePresignedUrl(r)
    \/ \E r \in DOMAIN pc : SendSnsNotification(r)
    \/ \E r \in DOMAIN pc : CleanRetryRule(r)

Spec == Init /\ [][Next]_vars

-----------------------------------------------------------------------------
(* Vocabulary of the properties *)

\* the operations of the calls run r has made, in order
Ops(r) == [i \in DOMAIN calls[r] |-> calls[r][i].op]

\* how many calls of operation op run r has made
Count(r, op) == Cardinality({i \in DOMAIN calls[r] : calls[r][i].op = op})

\* run r has made a call of op that came out as outcome
Came(r, op, outcome) ==
    \E i \in DOMAIN calls[r] : calls[r][i].op = op /\ calls[r][i].outcome = outcome

\* no collaborator has failed in run r
AllOk(r) == \A i \in DOMAIN calls[r] : calls[r][i].outcome = "ok"

\* the severity of the finding run r has fetched, -1 before it has one
SeverityOf(r) == Get(finding[r], "Severity", -1)

Returned(r, status, body) ==
    /\ pc[r] = "done"
    /\ result[r] = [statusCode |-> status, body |-> JsonDumps(body)]

StorageOps == {"put_object", "generate_presigned_url"}

SchedulerOps == {"put_rule", "put_targets", "delete_rule"}

Range(f) == {f[i] : i \in DOMAIN f}

-----------------------------------------------------------------------------
(* Severity gate and the order of the calls *)

\* C1: a run whose finding has a severity below 4.0 returns status 200 with
\* the skip message and has called neither the graph source, nor the
\* analysis capability, the object store, the notification bus or the
\* scheduler.
C1_LowSeveritySkipsWithoutCalls ==
    \A r \in DOMAIN pc :
        (SeverityOf(r) >= 0 /\ SeverityOf(r) < SeverityThreshold) =>
            /\ Returned(r, 200, Str(<<"Finding ", event[r].detail_id, " has severity of ",
                                      ToString(SeverityOf(r)), " not processing">>))
            /\ Range(Ops(r)) \cap ({"list_graphs", "list_members", "invoke_model", "publish"}
                                   \cup StorageOps \cup SchedulerOps) = {}

C1_Witness ==
    \E r \in DOMAIN pc :
        /\ SeverityOf(r) = 39
        /\ exit[r] = "skip"
        /\ Ops(r) = <<"get_findings">>

-----------------------------------------------------------------------------
(* Rescheduling on a rate limit *)

\* run r was rate-limited and both registration calls succeeded
Registered(r) ==
    /\ Came(r, "invoke_model", "throttled")
    /\ Came(r, "put_rule", "ok")
    /\ Came(r, "put_targets", "ok")

\* C3: when the analysis capability signals ThrottlingException and put_rule
\* and put_targets both succeed, the run has made exactly one put_rule and
\* one put_targets call, no put_object, generate_presigned_url or publish
\* call, and has returned status 200 with the body "Event scheduled.".
C3_ThrottledRunIsRescheduled ==
    \A r \in DOMAIN pc :
        Registered(r) =>
            /\ Count(r, "put_rule") = 1
            /\ Count(r, "put_targets") = 1
            /\ Range(Ops(r)) \cap (StorageOps \cup {"publish"}) = {}
            /\ Returned(r, 200, Str(<<"Event scheduled.">>))

C3_Witness ==
    \E r \in DOMAIN pc :
        /\ Registered(r)
        /\ exit[r] = "scheduled"
        /\ \E rule \in rules : rule.Name = sched[r].rule_name /\ rule.Targets # {}

\* C4: every rule that schedule_retry has registered fires strictly after the
\* time of its creation and at most 600 seconds after it.
C4_RuleFiresWithinDelay ==
    \A rule \in rules :
        /\ CronInstant(rule.ScheduleExpression) > rule.createdAt
        /\ CronInstant(rule.ScheduleExpression) <= rule.createdAt + MaxDelay

-----------------------------------------------------------------------------
(* Cleanup of the retry rule *)

\* the position of the successful publish call of run r, 0 if there is none
Notified(r) ==
    IF Came(r, "publish", "ok")
    THEN CHOOSE i \in DOMAIN calls[r] : calls[r][i].op = "publish"
    ELSE 0

\* C5: a run whose trigger carries a retry marker and which has uploaded and
\* notified successfully has, when it returns, made a delete_rule call with
\* exactly that marker name after the notification.
C5_MarkedRunDeletesItsRule ==
    \A r \in DOMAIN pc :
        (Has(event[r], "detail_retryRuleName") /\ Notified(r) > 0 /\ pc[r] = "done") =>
            \E i \in DOMAIN calls[r] :
                /\ i > Notified(r)
                /\ calls[r][i].op = "delete_rule"
                /\ calls[r][i].args.Name = event[r].detail_retryRuleName

\* the deletion of run r's retry rule has failed
DeletionFailed(r) ==
    \E i \in DOMAIN errors[r] : errors[r][i][1] = "Error deleting EventBridge rule: "

\* C6: when the deletion of the retry rule fails after a successful publish,
\* nothing is raised: the run returns status 200 with the analysis text as
\* body.
C6_FailedDeletionStillDone ==
    \A r \in DOMAIN pc :
        DeletionFailed(r) =>
            /\ Notified(r) > 0
            /\ exit[r] = "return"
            /\ ~ai_insights[r].none
            /\ Returned(r, 200, ai_insights[r].lines)

C6_Witness ==
    \E r \in DOMAIN pc :
        /\ DeletionFailed(r)
        /\ Has(event[r], "detail_retryRuleName")
        /\ result[r].statusCode = 200
        /\ JsonLoads(result[r].body) = Str(<<"Test AI Insights">>)

-----------------------------------------------------------------------------
(* Publishing *)

\* the calls of operation op that run r has made
CallsOf(r, op) == {calls[r][i] : i \in {j \in DOMAIN calls[r] : calls[r][j].op = op}}

\* C7: a run with a severity of 4.0 or more in which every collaborator has
\* succeeded and the analysis has returned the text T has, when it returns,
\* written exactly one object, under the key <findingId>.pdf, published
\* exactly one notification, and returns status 200 with T as body.
C7_SuccessfulRunPublishesOnce ==
    \A r \in DOMAIN pc :
        (/\ SeverityOf(r) >= SeverityThreshold
         /\ pc[r] = "done"
         /\ AllOk(r)
         /\ Came(r, "invoke_model", "ok")) =>
            /\ Count(r, "put_object") = 1
            /\ \A c \in CallsOf(r, "put_object") : c.args.Key = <<event[r].detail_id, ".pdf">>
            /\ Count(r, "publish") = 1
            /\ Returned(r, 200, ai_insights[r].lines)

\* C8: a pre-signed URL is only requested right after a successful put_object,
\* for the same key <findingId>.pdf and with a lifetime of exactly 3600
\* seconds, and a notification is only published right after that request
\* has succeeded: put, then presign, then publish.
C8_PutThenPresignThenPublish ==
    \A r \in DOMAIN pc :
        \A i \in DOMAIN calls[r] :
            /\ calls[r][i].op = "generate_presigned_url" =>
                    /\ i > 1
                    /\ calls[r][i - 1].op = "put_object"
                    /\ calls[r][i - 1].outcome = "ok"
                    /\ calls[r][i].args.Key = calls[r][i - 1].args.Key
                    /\ calls[r][i].args.Bucket = calls[r][i - 1].args.Bucket
                    /\ calls[r][i].args.Key = <<event[r].detail_id, ".pdf">>
                    /\ calls[r][i].args.ExpiresIn = 3600
            /\ calls[r][i].op = "publish" =>
                    /\ i > 2
                    /\ calls[r][i - 1].op = "generate_presigned_url"
                    /\ calls[r][i - 1].outcome = "ok"
                    /\ calls[r][i - 2].op = "put_object"

C8_Witness ==
    \E r \in DOMAIN pc :
        /\ Len(calls[r]) = 7
        /\ SubSeq(Ops(r), 5, 7) = <<"put_object", "generate_presigned_url", "publish">>
        /\ calls[r][7].outcome = "ok"

\* the body of the result of run r starts with the words of the except clause
ReportsError(r) ==
    /\ pc[r] = "done"
    /\ result[r].statusCode = 500
    /\ JsonLoads(result[r].body)[1].s[1] = "Error in processing: "
    /\ Len(JsonLoads(result[r].body)[1].s) > 1

\* C9: when publish fails after a successful upload, the run returns status
\* 500 with the error description, the uploaded object is still in the
\* store and no deletion of a retry rule is called or attempted; when
\* put_object or generate_presigned_url fails, the run returns status 500 and
\* no notification is sent.
C9_PublishStageFailureIsFatal ==
    \A r \in DOMAIN pc :
        /\ Came(r, "publish", "error") =>
                /\ ReportsError(r)
                /\ \E o \in objects : o.Key = <<event[r].detail_id, ".pdf">>
                /\ Count(r, "delete_rule") = 0
                /\ ~DeletionFailed(r)
        /\ (Came(r, "put_object", "error") \/ Came(r, "generate_presigned_url", "error")) =>
                /\ ReportsError(r)
                /\ Count(r, "publish") = 0

C9_Witness ==
    \E r \in DOMAIN pc :
        /\ Came(r, "publish", "error")
        /\ Came(r, "put_object", "ok")
        /\ Has(event[r], "detail_retryRuleName")
        /\ exit[r] = "except"
        /\ objects # {}

\* the URL with every "%20" turned back into a space
RECURSIVE Unquote(_)
Unquote(url) ==
    IF Len(url) >= 3 /\ SubSeq(url, 1, 3) = <<"%", "2", "0">>
    THEN <<" ">> \o Unquote(SubSeq(url, 4, Len(url)))
    ELSE IF url = <<>> THEN <<>> ELSE <<Head(url)>> \o Unquote(Tail(url))

\* inner is outer without some whitespace at its two ends
TrimmedFrom(inner, outer) ==
    \E i \in 1..(Len(outer) + 1) :
        /\ i + Len(inner) - 1 <= Len(outer)
        /\ SubSeq(outer, i, i + Len(inner) - 1) = inner
        /\ \A j \in 1..Len(outer) : (j < i \/ j >= i + Len(inner)) => outer[j] \in Whitespace

\* C10: each publish call goes to the configured topic with a message of
\* exactly the two renderings default and email; the email rendering embeds
\* the pre-signed URL without its leading and trailing whitespace and with
\* "%20" in place of every space, so that no space is left in it; a run
\* makes one publish call and a successful call puts one message on the topic.
C10_NotificationCarriesEncodedUrl ==
    /\ \A r \in DOMAIN pc :
        /\ Count(r, "publish") <= 1
        /\ \A c \in CallsOf(r, "publish") :
            LET message == JsonLoads(c.args.Message) IN
            /\ c.args.TopicArn = env[r].AI_REPORTS_TOPIC_ARN
            /\ c.args.MessageStructure = "json"
            /\ DOMAIN message = {"default", "email"}
            /\ " " \notin Range(message.email.url)
            /\ message.email.url # <<>> =>
                    /\ Head(message.email.url) \notin Whitespace
                    /\ message.email.url[Len(message.email.url)] \notin Whitespace
            /\ TrimmedFrom(Unquote(message.email.url), pre_signed_url[r])
            /\ c.outcome = "ok" => c.args \in Range(published)
    /\ Len(published) = Cardinality({r \in DOMAIN pc : Came(r, "publish", "ok")})

C10_Witness ==
    \E r \in DOMAIN pc :
        /\ Came(r, "publish", "ok")
        /\ pre_signed_url[r] = <<" ", "u", " ", "u">>
        /\ \E c \in CallsOf(r, "publish") :
                JsonLoads(c.args.Message).email.url = <<"u", "%", "2", "0", "u">>

-----------------------------------------------------------------------------
(* The outcomes of a run *)

\* the terminal outcome of a run that has returned, by the return statement
\* it left lambda_handler through
Outcome(r) ==
    CASE exit[r] = "skip" -> "SKIPPED"
      [] exit[r] = "scheduled" -> "RESCHEDULED"
      [] exit[r] = "return" -> "DONE"
      [] exit[r] = "except" -> "FAILED"
      [] OTHER -> "NONE"

\* the bucket name and the topic ARN are both set for run r
Configured(r) ==
    /\ Getenv(env[r], "AI_REPORTS_BUCKET_NAME") # ""
    /\ Getenv(env[r], "AI_REPORTS_TOPIC_ARN") # ""

\* C11: a run that has returned has one of the outcomes SKIPPED,
\* RESCHEDULED, DONE and FAILED, with status 200 for the first three and 500
\* for FAILED; a run that has not returned has no status, so that no status
\* other than 200 and 500 is ever returned; and a run that has returned makes
\* no further collaborator call and keeps its result.
C11_FourOutcomesTwoStatuses ==
    /\ [](\A r \in DOMAIN pc :
            /\ pc[r] = "done" =>
                /\ Outcome(r) \in {"SKIPPED", "RESCHEDULED", "DONE", "FAILED"}
                /\ Outcome(r) \in {"SKIPPED", "RESCHEDULED", "DONE"} => result[r].statusCode = 200
                /\ Outcome(r) = "FAILED" => result[r].statusCode = 500
            /\ pc[r] # "done" => result[r] = NoResult /\ Outcome(r) = "NONE")
    /\ [][\A r \in DOMAIN pc :
            pc[r] = "done" =>
                /\ calls'[r] = calls[r]
                /\ result'[r] = result[r]
                /\ exit'[r] = exit[r]
                /\ pc'[r] = "done"]_vars

C11_Witness ==
    /\ \E r \in DOMAIN pc : pc[r] = "done" /\ Outcome(r) = "FAILED" /\ Len(calls[r]) = 3
                            /\ result[r].statusCode = 500

\* C12 as stated: no invocation lets an exception leave lambda_handler, a
\* missing bucket name or topic ARN included.
C12_NoExceptionEscapes ==
    \A r \in DOMAIN pc : pc[r] # "raised" /\ exit[r] # "raise"

\* C12, amended: an invocation whose bucket name and topic ARN are set never
\* lets an exception leave lambda_handler: as long as it has not returned it
\* can take a step, and once it has returned it has handed back a status of
\* 200 or 500 and a body, whatever its collaborators answered; an invocation
\* with one of the two settings unset raises ValueError before any
\* collaborator call and hands back nothing.
C12_ConfiguredRunHandsBackPayload ==
    \A r \in DOMAIN pc :
        /\ Configured(r) =>
            /\ pc[r] # "raised" /\ exit[r] # "raise"
            /\ pc[r] # "done" => ENABLED Next
            /\ pc[r] = "done" =>
                /\ DOMAIN result[r] = {"statusCode", "body"}
                /\ result[r].statusCode \in {200, 500}
        /\ (~Configured(r) /\ pc[r] # "start") =>
            /\ pc[r] = "raised"
            /\ calls[r] = <<>>
            /\ result[r] = NoResult
            /\ Len(errors[r]) = 1

C12_Witness ==
    \E r \in DOMAIN pc :
        /\ Configured(r)
        /\ Came(r, "put_object", "error")
        /\ Returned(r, 500, Str(<<"Error in processing: ", "ClientError">>))

\* C13 as stated: a trigger without detail.id or without
\* detail.service.detectorId ends with status 500 before any call.
C13_MalformedTriggerFails ==
    \A r \in DOMAIN pc :
        (pc[r] # "start" /\ (~Has(event[r], "detail_id")
                             \/ ~Has(event[r], "detail_service_detectorId"))) =>
            /\ ReportsError(r)
            /\ calls[r] = <<>>

\* C13, amended: in a run whose bucket name and topic ARN are set, a trigger
\* without detail.id or without detail.service.detectorId ends with status
\* 500 and the name of the missing key before any collaborator call, so that
\* no schedule is created; with a setting unset the run raises ValueError
\* before it reads the trigger.
C13_MalformedTriggerFailsWhenConfigured ==
    \A r \in DOMAIN pc :
        (pc[r] # "start" /\ (~Has(event[r], "detail_id")
                             \/ ~Has(event[r], "detail_service_detectorId"))) =>
            /\ calls[r] = <<>>
            /\ sched[r] = NoSchedule
            /\ Configured(r) =>
                /\ Outcome(r) = "FAILED"
                /\ Returned(r, 500, Str(<<"Error in processing: ",
                        IF Has(event[r], "detail_id") THEN "'detectorId'" ELSE "'id'">>))
            /\ ~Configured(r) => pc[r] = "raised"

C13_Witness ==
    \E r \in DOMAIN pc :
        /\ Configured(r)
        /\ ~Has(event[r], "detail_service_detectorId")
        /\ Returned(r, 500, Str(<<"Error in processing: ", "'detectorId'">>))
        /\ calls[r] = <<>>

-----------------------------------------------------------------------------
(* Failures of the analysis and of the enrichment *)

\* the calls of run r after its i-th
CallsAfter(r, i) == SubSeq(calls[r], i + 1, Len(calls[r]))

\* C14: when invoke_model fails with an error other than
\* ThrottlingException, the run returns status 500 with the description of
\* the error, having called invoke_model once and as its last call: no
\* put_rule and no put_targets, so no schedule is created, and no
\* put_object, generate_presigned_url or publish.
C14_AnalysisErrorIsFatal ==
    \A r \in DOMAIN pc :
        Came(r, "invoke_model", "error") =>
            /\ ReportsError(r)
            /\ Outcome(r) = "FAILED"
            /\ Count(r, "invoke_model") = 1
            /\ calls[r][Len(calls[r])].op = "invoke_model"
            /\ Range(Ops(r)) \cap (SchedulerOps \cup StorageOps \cup {"publish"}) = {}
            /\ sched[r] = NoSchedule

C14_Witness ==
    \E r \in DOMAIN pc :
        /\ Came(r, "invoke_model", "error")
        /\ Ops(r) = <<"get_findings", "list_graphs", "list_members", "invoke_model">>
        /\ Returned(r, 500, Str(<<"Error in processing: ", "ClientError: ",
                                  "ValidationException">>))

\* C15: when get_findings answers with no finding, or list_graphs with no
\* graph, the run returns status 500 with the description of the error and
\* that call is its last: invoke_model, the object store, the notification
\* bus and the scheduler are not called.
C15_NothingFoundIsFatal ==
    \A r \in DOMAIN pc :
        \A i \in DOMAIN calls[r] :
            (calls[r][i].op \in {"get_findings", "list_graphs"} /\ calls[r][i].outcome = "empty") =>
                /\ ReportsError(r)
                /\ Outcome(r) = "FAILED"
                /\ CallsAfter(r, i) = <<>>
                /\ Range(Ops(r)) \cap ({"invoke_model", "publish"} \cup StorageOps
                                       \cup SchedulerOps) = {}

C15_Witness ==
    \E r \in DOMAIN pc :
        /\ Came(r, "list_graphs", "empty")
        /\ Ops(r) = <<"get_findings", "list_graphs">>
        /\ Returned(r, 500, Str(<<"Error in processing: ",
                                  "No graphs found in Amazon Detective.">>))

\* C16: the replay payload of every put_targets call carries the account,
\* the region, the schema version, the partition, the detector id and the
\* finding id of the event of the run unchanged, and its detail.retryRuleName
\* is the name of the rule the put_rule call of the same run has created,
\* which is the rule the target is added to.
C16_ReplayCarriesEventAndRuleName ==
    \A r \in DOMAIN pc :
        \A c \in CallsOf(r, "put_targets") :
            /\ Cardinality(c.args.Targets) = 1
            /\ \A t \in c.args.Targets :
                LET replay == JsonLoads(t.Input) IN
                /\ replay.account = event[r].account
                /\ replay.region = event[r].region
                /\ replay.detail_schemaVersion = event[r].detail_schemaVersion
                /\ replay.detail_partition = event[r].detail_partition
                /\ replay.detail_service_detectorId = event[r].detail_service_detectorId
                /\ replay.detail_id = event[r].detail_id
                /\ replay.detail_retryRuleName = c.args.Rule
                /\ \E p \in CallsOf(r, "put_rule") :
                        p.outcome = "ok" /\ p.args.Name = replay.detail_retryRuleName
                /\ c.outcome = "ok" =>
                        \E rule \in rules : rule.Name = replay.detail_retryRuleName
                                            /\ t \in rule.Targets

C16_Witness ==
    \E r \in DOMAIN pc :
        /\ Has(event[r], "detail_retryRuleName")
        /\ Came(r, "put_targets", "ok")
        /\ \E rule \in rules :
            /\ rule.Name # event[r].detail_retryRuleName
            /\ \E t \in rule.Targets :
                /\ JsonLoads(t.Input).detail_retryRuleName = rule.Name
                /\ JsonLoads(t.Input).detail_id = FINDING_ID

-----------------------------------------------------------------------------
(* The text of the analysis and its rendering *)

\* the analysis capability has answered run r without an error and the
\* answer holds no text
AnsweredWithoutText(r) ==
    \/ Came(r, "invoke_model", "empty")
    \/ Came(r, "invoke_model", "ok") /\ ai_insights[r] = Text(Str(<<>>))

\* C17: when the answer of invoke_model holds no text (no content entry, an
\* empty content list, or a first item without text), the analysis text of
\* the run is the empty string, the run does not fail at that call, and when
\* it has returned with no failure of the object store or of the
\* notification bus it has returned status 200 with the empty text.
C17_MissingTextYieldsEmptyString ==
    \A r \in DOMAIN pc :
        AnsweredWithoutText(r) =>
            /\ ai_insights[r] = Text(Str(<<>>))
            /\ calls[r][Len(calls[r])].op = "invoke_model" => pc[r] # "done"
            /\ (pc[r] = "done" /\ \A op \in StorageOps \cup {"publish"} : ~Came(r, op, "error")) =>
                    /\ Outcome(r) = "DONE"
                    /\ Returned(r, 200, Str(<<>>))

\* the same for the answers with no content entry or with a first item
\* without text only
C17_AbsentFieldYieldsEmptyString ==
    \A r \in DOMAIN pc :
        (AnsweredWithoutText(r) /\ ~Came(r, "invoke_model", "empty")) =>
            /\ calls[r][Len(calls[r])].op = "invoke_model" => pc[r] # "done"
            /\ (pc[r] = "done" /\ \A op \in StorageOps \cup {"publish"} : ~Came(r, op, "error")) =>
                    /\ Outcome(r) = "DONE"
                    /\ Returned(r, 200, Str(<<>>))

\* the lines of the analysis text of run r that are rendered: the lines that
\* are not blank, or one empty line when there is none
RenderedLines(r) ==
    LET kept == SelectSeq(ai_insights[r].lines, LAMBDA line : ~IsBlank(line))
    IN  IF kept = <<>> THEN Str(<<>>) ELSE kept

\* the blocks of the analysis body of a document, without the separators
LineBlocksOf(pdf) == SelectSeq(pdf.insights, LAMBDA block : block.op # "ln")

\* the line is a header of hs and nothing else
ExactlyIn(line, hs) == line \in {Ln(h) : h \in hs}

\* the line is a header of hs once its leading and trailing whitespace is
\* removed
TrimmedIn(line, hs) == line.s \in hs

Primary(block) == block.op = "cell" /\ block.font = <<"Arial", "B", "12">>

Secondary(block) == block.op = "cell" /\ block.font = <<"Arial", "B", "10">>

Body(block) == block.op = "multi_cell" /\ block.font = <<"Arial", "", "10">>

\* C18 as stated: in every document written, a line of the analysis text is
\* rendered in the primary heading style exactly when it is equal to one of
\* Analysis:, Remediation Actions:, Recommended Actions:, in the secondary
\* style exactly when it is equal to one of Entities Involved:, Security
\* Group Impact:, Attempt Status:, and as a body paragraph otherwise.
C18_HeadingIffExactHeader ==
    \A r \in DOMAIN pc :
        \A c \in CallsOf(r, "put_object") :
            LET lines == RenderedLines(r)
                blocks == LineBlocksOf(c.args.Body)
            IN  /\ Len(blocks) = Len(lines)
                /\ \A i \in DOMAIN blocks :
                    /\ Primary(blocks[i]) <=> ExactlyIn(lines[i], H3Headers)
                    /\ Secondary(blocks[i]) <=> ExactlyIn(lines[i], H4Headers)
                    /\ Body(blocks[i]) <=> ~ExactlyIn(lines[i], H3Headers \cup H4Headers)

\* C18, amended: in every document written, a line of the analysis text is
\* rendered in the primary heading style exactly when, with its leading and
\* trailing whitespace removed, it is equal (case-sensitively) to one of
\* Analysis:, Remediation Actions:, Recommended Actions:, in the secondary
\* style exactly when so trimmed it is equal to one of Entities Involved:,
\* Security Group Impact:, Attempt Status:, and as a body paragraph
\* otherwise; the block carries the trimmed line.
C18_HeadingIffTrimmedHeader ==
    \A r \in DOMAIN pc :
        \A c \in CallsOf(r, "put_object") :
            LET lines == RenderedLines(r)
                blocks == LineBlocksOf(c.args.Body)
            IN  /\ Len(blocks) = Len(lines)
                /\ \A i \in DOMAIN blocks :
                    /\ Primary(blocks[i]) <=> TrimmedIn(lines[i], H3Headers)
                    /\ Secondary(blocks[i]) <=> TrimmedIn(lines[i], H4Headers)
                    /\ Body(blocks[i]) <=> ~TrimmedIn(lines[i], H3Headers \cup H4Headers)
                    /\ blocks[i].txt = lines[i].s

C18_Witness ==
    \E r \in DOMAIN pc :
        \E c \in CallsOf(r, "put_object") :
            LET blocks == LineBlocksOf(c.args.Body) IN
            /\ Len(ai_insights[r].lines) = 6 /\ Len(blocks) = 4
            /\ ai_insights[r].lines[2] = Line(<<" ">>, <<"Analysis:">>, <<" ", "\t">>)
            /\ Secondary(blocks[1]) /\ blocks[1].txt = <<"Attempt Status:">>
            /\ Primary(blocks[2]) /\ blocks[2].txt = <<"Analysis:">>
            /\ Body(blocks[3]) /\ blocks[3].txt = <<"analysis:">>
            /\ Body(blocks[4])

-----------------------------------------------------------------------------
(* The gate and the finding source *)

\* C20 as stated: a run that ends at the severity gate has called neither
\* get_findings nor the graph source.
C20_SkippedRunCallsNoReader ==
    \A r \in DOMAIN pc :
        exit[r] = "skip" =>
            /\ Count(r, "get_findings") = 0
            /\ Count(r, "list_graphs") = 0
            /\ Count(r, "list_members") = 0

\* C20, amended: the severity gate decides on the finding get_findings has
\* handed back, so it follows that one call and precedes every call to the
\* graph source: a run that ends at the gate has made exactly one call, a
\* successful get_findings for a finding below 4.0, and a run that has
\* called the graph source has fetched a finding of 4.0 or more before.
C20_GateFollowsFindingPrecedesGraph ==
    \A r \in DOMAIN pc :
        /\ exit[r] = "skip" =>
            /\ Ops(r) = <<"get_findings">>
            /\ calls[r][1].outcome = "ok"
            /\ SeverityOf(r) >= 0 /\ SeverityOf(r) < SeverityThreshold
        /\ \A i \in DOMAIN calls[r] :
            calls[r][i].op \in {"list_graphs", "list_members"} =>
                /\ i > 1
                /\ calls[r][1].op = "get_findings" /\ calls[r][1].outcome = "ok"
                /\ SeverityOf(r) >= SeverityThreshold

C20_Witness ==
    \E r \in DOMAIN pc :
        /\ Has(event[r], "detail_retryRuleName")
        /\ Outcome(r) = "SKIPPED"
        /\ Count(r, "get_findings") = 1
        /\ Len(calls[r]) = 1

-----------------------------------------------------------------------------
(* The life of a retry rule *)

FailedOutsideAnalysis(r) ==
    \E i \in DOMAIN calls[r] :
        /\ calls[r][i].op \in {"get_findings", "list_graphs", "list_members", "publish"}
                              \cup StorageOps
        /\ calls[r][i].outcome \in {"error", "empty"}

\* C24: a run calls put_rule at most once and only right after invoke_model
\* has raised ThrottlingException in that run; a run in which the finding
\* source, the graph source, the object store or the notification bus has
\* failed has called neither put_rule nor put_targets and returns status 500.
C24_ScheduleOnlyOnThrottling ==
    \A r \in DOMAIN pc :
        /\ Count(r, "put_rule") <= 1
        /\ \A i \in DOMAIN calls[r] :
            calls[r][i].op = "put_rule" =>
                /\ i > 1
                /\ calls[r][i - 1].op = "invoke_model"
                /\ calls[r][i - 1].outcome = "throttled"
        /\ sched[r] # NoSchedule => Came(r, "invoke_model", "throttled")
        /\ FailedOutsideAnalysis(r) =>
            /\ Count(r, "put_rule") = 0 /\ Count(r, "put_targets") = 0
            /\ sched[r] = NoSchedule
            /\ Outcome(r) = "FAILED"
            /\ ReportsError(r)

C24_Witness ==
    \E r \in DOMAIN pc :
        /\ Came(r, "put_object", "error")
        /\ Outcome(r) = "FAILED"
        /\ Count(r, "put_rule") = 0
        /\ rules = {}

\* run r has tried to delete a retry rule
TriedDeletion(r) == Count(r, "delete_rule") > 0 \/ DeletionFailed(r) \/ pc[r] = "delete_rule"

\* the rules that exist when run r starts: the rule its replay event comes from
RulesBefore(r) ==
    {rule \in {PriorRule} : \E t \in rule.Targets : JsonLoads(t.Input) = event[r]}

\* C25: a run tries the deletion of a retry rule only after it has published
\* its notification successfully, only when its trigger carries a retry
\* marker, and only for that marker; a run that ends SKIPPED, RESCHEDULED or
\* FAILED, or whose trigger carries no marker, has tried no deletion, and the
\* rules it found are all still there.
C25_DeletionOnlyAfterPublishOfOwnMarker ==
    \A r \in DOMAIN pc :
        /\ TriedDeletion(r) =>
            /\ Came(r, "publish", "ok")
            /\ Has(event[r], "detail_retryRuleName")
            /\ \A c \in CallsOf(r, "delete_rule") :
                    c.args.Name = event[r].detail_retryRuleName
        /\ (Outcome(r) \in {"SKIPPED", "RESCHEDULED", "FAILED"}
            \/ (pc[r] = "done" /\ ~Has(event[r], "detail_retryRuleName"))) =>
                /\ ~TriedDeletion(r)
                /\ RulesBefore(r) \subseteq rules

C25_Witness ==
    \E r \in DOMAIN pc :
        /\ TriedDeletion(r)
        /\ pc[r] = "done"
        /\ Came(r, "publish", "ok")
        /\ event[r].detail_retryRuleName = PriorRule.Name

\* registering the retry rule has failed in run r
RegistrationFailed(r) == Came(r, "put_rule", "error") \/ Came(r, "put_targets", "error")

\* the pieces the body of the result of run r is put together from
BodyPieces(r) == UNION {Range(JsonLoads(result[r].body)[i].s) :
                            i \in DOMAIN JsonLoads(result[r].body)}

\* C26: when put_rule or put_targets fails, the run does not end RESCHEDULED,
\* makes no put_object, generate_presigned_url or publish call, and returns
\* status 500 with a description that names the throttling error.
C26_FailedRegistrationReportsThrottling ==
    \A r \in DOMAIN pc :
        RegistrationFailed(r) =>
            /\ Outcome(r) = "FAILED"
            /\ ReportsError(r)
            /\ Range(Ops(r)) \cap (StorageOps \cup {"publish"}) = {}
            /\ "ThrottlingException" \in BodyPieces(r)

\* the same without the description: the registration failure is logged and
\* answered with status 500 and the text of an AttributeError
C26_FailedRegistrationFails ==
    \A r \in DOMAIN pc :
        RegistrationFailed(r) =>
            /\ Outcome(r) = "FAILED"
            /\ Range(Ops(r)) \cap (StorageOps \cup {"publish"}) = {}
            /\ Returned(r, 500, Str(<<"Error in processing: ",
                                      "'NoneType' object has no attribute 'strip'">>))
            /\ \E i \in DOMAIN errors[r] : errors[r][i][1] = "Failed to schedule retry: "

\* the groups of lines of a text between its runs of blank lines: the
\* positions of the first line of each group
GroupStarts(lines) ==
    {i \in DOMAIN lines : ~IsBlank(lines[i]) /\ (i = 1 \/ IsBlank(lines[i - 1]))}

\* the blocks of a document as the content of each line and "" for a separator
Shape(pdf) ==
    [i \in DOMAIN pdf.insights |->
        IF pdf.insights[i].op = "ln" THEN <<"">> ELSE pdf.insights[i].txt]

\* the lines of a text in their order, "" after the last line of each group
RECURSIVE ShapeOf(_)
ShapeOf(lines) ==
    IF lines = <<>> THEN <<>>
    ELSE IF IsBlank(Head(lines)) THEN ShapeOf(Tail(lines))
    ELSE IF Len(lines) = 1 \/ IsBlank(lines[2])
         THEN <<Head(lines).s, <<"">>>> \o ShapeOf(Tail(lines))
         ELSE <<Head(lines).s>> \o ShapeOf(Tail(lines))

\* C30: in every document written the blocks of the analysis body are the
\* lines of the text that are not blank, trimmed, one block per line and in
\* the order of the text, with exactly one separator after the last line of
\* each group of lines between blank lines: a text of k groups has k
\* separators (the empty text is one group of one empty line).
C30_BlocksFollowLinesAndGroups ==
    \A r \in DOMAIN pc :
        \A c \in CallsOf(r, "put_object") :
            LET lines == ai_insights[r].lines
                pdf == c.args.Body
                separators == {i \in DOMAIN pdf.insights : pdf.insights[i].op = "ln"}
            IN  IF GroupStarts(lines) = {}
                THEN Shape(pdf) = <<<<>>, <<"">>>>
                ELSE /\ Shape(pdf) = ShapeOf(lines)
                     /\ Cardinality(separators) = Cardinality(GroupStarts(lines))
                     /\ Len(pdf.insights) - Cardinality(separators)
                            = Cardinality({i \in DOMAIN lines : ~IsBlank(lines[i])})

C30_Witness ==
    \E r \in DOMAIN pc :
        \E c \in CallsOf(r, "put_object") :
            /\ Len(ai_insights[r].lines) = 6
            /\ Shape(c.args.Body) = <<<<"Attempt Status:">>, <<"Analysis:">>, <<"">>,
                                      <<"analysis:">>, <<"Blocked.">>, <<"">>>>

-----------------------------------------------------------------------------
(* Termination of a run *)

\* one value for each input that no branch of the code looks at: the time
\* and the delay of schedule_retry, the time of generate_pdf, and a
\* pre-signed URL of at most one character
OneOfEach ==
    \A r \in DOMAIN pc :
        /\ sched[r] # NoSchedule =>
                /\ sched[r].now = 0
                /\ sched[r].cron_expression = PriorRule.ScheduleExpression
        /\ \A c \in CallsOf(r, "put_object") : c.args.Body.generated = 0
        /\ \A c \in CallsOf(r, "list_members") :
                c.outcome = "ok" => c.response # [NextToken |-> "token"]
        /\ Len(pre_signed_url[r]) <= 1

\* the steps of Next with one value for each such input
FairNext ==
    \/ \E r \in DOMAIN pc : LambdaHandlerEntry(r) /\ OneOfEach'
    \/ \E r \in DOMAIN pc : GetGuarddutyFinding(r) /\ OneOfEach'
    \/ \E r \in DOMAIN pc : GetGraphArn(r) /\ OneOfEach'
    \/ \E r \in DOMAIN pc : GetAllDetectiveEntities(r) /\ OneOfEach'
    \/ \E r \in DOMAIN pc : InvokeBedrockModel(r) /\ OneOfEach'
    \/ \E r \in DOMAIN pc : PutRule(r) /\ OneOfEach'
    \/ \E r \in DOMAIN pc : PutTargets(r) /\ OneOfEach'
    \/ \E r \in DOMAIN pc : PutObject(r) /\ OneOfEach'
    \/ \E r \in DOMAIN pc : GeneratePresignedUrl(r) /\ OneOfEach'
    \/ \E r \in DOMAIN pc : SendSnsNotification(r) /\ OneOfEach'
    \/ \E r \in DOMAIN pc : CleanRetryRule(r) /\ OneOfEach'

\* every collaborator call returns: a run that can take a step takes it
FairSpec ==
    /\ Init
    /\ [][FairNext]_vars
    /\ \A r \in Runs :
        /\ WF_vars(LambdaHandlerEntry(r) /\ OneOfEach')
        /\ WF_vars(GetGuarddutyFinding(r) /\ OneOfEach')
        /\ WF_vars(GetGraphArn(r) /\ OneOfEach')
        /\ WF_vars(GetAllDetectiveEntities(r) /\ OneOfEach')
        /\ WF_vars(InvokeBedrockModel(r) /\ OneOfEach')
        /\ WF_vars(PutRule(r) /\ OneOfEach')
        /\ WF_vars(PutTargets(r) /\ OneOfEach')
        /\ WF_vars(PutObject(r) /\ OneOfEach')
        /\ WF_vars(GeneratePresignedUrl(r) /\ OneOfEach')
        /\ WF_vars(SendSnsNotification(r) /\ OneOfEach')
        /\ WF_vars(CleanRetryRule(r) /\ OneOfEach')

\* the most calls a run makes: finding, graph, members, analysis, then upload,
\* link, notification and deletion
MostCalls == 8

\* C27 as stated: a run calls invoke_model at most once and put_rule and
\* put_targets at most once each, makes a bounded number of calls, and
\* returns with one of its four outcomes whenever every call returns.
C27_EveryRunReturns ==
    /\ [](\A r \in DOMAIN pc :
            /\ Count(r, "invoke_model") <= 1
            /\ Count(r, "put_rule") <= 1 /\ Count(r, "put_targets") <= 1
            /\ Len(calls[r]) <= MostCalls)
    /\ \A r \in Runs : <>(pc[r] = "done" /\ Outcome(r) # "NONE")

\* C27, amended: a run calls each collaborator operation at most once, so
\* invoke_model once and put_rule and put_targets once each when throttled,
\* and at most eight calls in all; whenever every call returns, a run whose
\* bucket name and topic ARN are set returns with one of its four outcomes,
\* a throttled one right after its attempt to register the rule, and a run
\* with a setting unset ends by raising ValueError.
C27_EveryRunEnds ==
    /\ [](\A r \in DOMAIN pc :
            /\ \A op \in Range(Ops(r)) : Count(r, op) = 1
            /\ Len(calls[r]) <= MostCalls
            /\ Came(r, "invoke_model", "throttled") =>
                    Range(CallsAfter(r, 4)) \subseteq
                        {c \in Range(calls[r]) : c.op \in {"put_rule", "put_targets"}}
            /\ pc[r] = "done" => Configured(r) /\ Outcome(r) # "NONE"
            /\ pc[r] = "raised" => ~Configured(r))
    /\ \A r \in Runs : <>(pc[r] \in {"done", "raised"})

C27_Witness ==
    \E r \in DOMAIN pc :
        /\ Came(r, "invoke_model", "throttled")
        /\ Ops(r) = <<"get_findings", "list_graphs", "list_members", "invoke_model",
                      "put_rule", "put_targets">>
        /\ Outcome(r) = "RESCHEDULED"

-----------------------------------------------------------------------------
(* Two runs for one finding and the replays of their retry rules *)

\* the runs there are at most, replays included
MaxRuns == 4

\* the name of the n-th run
RunName(n) == ToString(n)

\* os.environ of the deployed function
Deployed == [AI_REPORTS_BUCKET_NAME |-> S3_BUCKET_NAME, AI_REPORTS_TOPIC_ARN |-> SNS_TOPIC_ARN]

\* two invocations of lambda_handler with the same GuardDuty event, no retry
\* rule yet
InitReplay ==
    LET first == {RunName(1), RunName(2)} IN
    /\ pc = [r \in first |-> "start"]
    /\ event = [r \in first |-> EVENT]
    /\ env = [r \in first |-> Deployed]
    /\ finding = [r \in first |-> NoFinding]
    /\ detective_entities = [r \in first |-> <<>>]
    /\ ai_insights = [r \in first |-> None]
    /\ sched = [r \in first |-> NoSchedule]
    /\ pdf_buffer = [r \in first |-> NoDocument]
    /\ pre_signed_url = [r \in first |-> <<>>]
    /\ result = [r \in first |-> NoResult]
    /\ exit = [r \in first |-> "running"]
    /\ calls = [r \in first |-> <<>>]
    /\ errors = [r \in first |-> <<>>]
    /\ rules = {}
    /\ objects = {}
    /\ published = <<>>
    /\ uuids = 0

\* f with the value v for the new run r
With(f, r, v) == [x \in DOMAIN f \cup {r} |-> IF x = r THEN v ELSE f[x]]

\* index.py 229-266: the rule put at 232 fires and EventBridge invokes the
\* function named by the Arn of its target with the Input of the target as
\* event; here a rule fires when the runs before have ended
Fire ==
    \E rule \in rules : \E t \in rule.Targets :
        LET r == RunName(Cardinality(DOMAIN pc) + 1) IN
        /\ Cardinality(DOMAIN pc) < MaxRuns
        /\ \A x \in DOMAIN pc : pc[x] \in {"done", "raised"}
        /\ pc' = With(pc, r, "start")
        /\ event' = With(event, r, JsonLoads(t.Input))
        /\ env' = With(env, r, Deployed)
        /\ finding' = With(finding, r, NoFinding)
        /\ detective_entities' = With(detective_entities, r, <<>>)
        /\ ai_insights' = With(ai_insights, r, None)
        /\ sched' = With(sched, r, NoSchedule)
        /\ pdf_buffer' = With(pdf_buffer, r, NoDocument)
        /\ pre_signed_url' = With(pre_signed_url, r, <<>>)
        /\ result' = With(result, r, NoResult)
        /\ exit' = With(exit, r, "running")
        /\ calls' = With(calls, r, <<>>)
        /\ errors' = With(errors, r, <<>>)
        /\ UNCHANGED <<rules, objects, published, uuids>>

\* the collaborators answer, the analysis with the text of the tests or with
\* ThrottlingException, the finding has severity 6.0, and the inputs no
\* branch reads have one value each, but for the time of generate_pdf in the
\* second run
Answering ==
    \A r \in DOMAIN pc :
        /\ sched[r] # NoSchedule =>
                /\ sched[r].now = 0
                /\ sched[r].cron_expression = PriorRule.ScheduleExpression
        /\ \A i \in DOMAIN calls[r] : calls[r][i].outcome \in {"ok", "throttled"}
        /\ finding[r] # NoFinding => finding[r].Severity = 60
        /\ \A c \in CallsOf(r, "list_members") :
                c.outcome = "ok" => c.response = [MemberDetails |-> MEMBER_DETAILS]
        /\ Came(r, "invoke_model", "ok") => ai_insights[r] = Text(Str(<<"Test AI Insights">>))
        /\ pre_signed_url[r] \in {<<>>, <<"u">>}
        /\ r # RunName(2) => \A c \in CallsOf(r, "put_object") : c.args.Body.generated = 0

NextReplay ==
    \/ \E r \in DOMAIN pc : LambdaHandlerEntry(r) /\ Answering'
    \/ \E r \in DOMAIN pc : GetGuarddutyFinding(r) /\ Answering'
    \/ \E r \in DOMAIN pc : GetGraphArn(r) /\ Answering'
    \/ \E r \in DOMAIN pc : GetAllDetectiveEntities(r) /\ Answering'
    \/ \E r \in DOMAIN pc : InvokeBedrockModel(r) /\ Answering'
    \/ \E r \in DOMAIN pc : PutRule(r) /\ Answering'
    \/ \E r \in DOMAIN pc : PutTargets(r) /\ Answering'
    \/ \E r \in DOMAIN pc : PutObject(r) /\ Answering'
    \/ \E r \in DOMAIN pc : GeneratePresignedUrl(r) /\ Answering'
    \/ \E r \in DOMAIN pc : SendSnsNotification(r) /\ Answering'
    \/ \E r \in DOMAIN pc : CleanRetryRule(r) /\ Answering'
    \/ Fire

SpecReplay == InitReplay /\ [][NextReplay]_vars

-----------------------------------------------------------------------------
(* Concurrent runs and chains of replays *)

\* the arguments of the put_object call of run r
Put(r) == (CHOOSE c \in CallsOf(r, "put_object") : TRUE).args

\* C21: two runs for the same finding that have both returned the analysis
\* text have written under the same key <findingId>.pdf, the store holds one
\* object under that key and it is what one of the runs has put, and each
\* run has published its notification, so that there are as many
\* notifications as runs that published; every successful put_object
\* replaces what the store held under the key by what that call has put,
\* whichever run held it before.
C21_LastWriterWins ==
    /\ [](/\ \A r, q \in DOMAIN pc :
                (r # q /\ Outcome(r) = "DONE" /\ Outcome(q) = "DONE"
                 /\ event[r].detail_id = event[q].detail_id) =>
                    /\ Put(r).Key = FileName(event[r].detail_id)
                    /\ Put(q).Key = Put(r).Key /\ Put(q).Bucket = Put(r).Bucket
                    /\ Cardinality({o \in objects : o.Key = Put(r).Key}) = 1
                    /\ \A o \in objects :
                        o.Key = Put(r).Key =>
                            \E x \in DOMAIN pc : Came(x, "put_object", "ok") /\ o = Put(x)
                    /\ Came(r, "publish", "ok") /\ Came(q, "publish", "ok")
          /\ Len(published) = Cardinality({r \in DOMAIN pc : Came(r, "publish", "ok")}))
    /\ [][\A r \in DOMAIN pc :
            (/\ Len(calls'[r]) > Len(calls[r])
             /\ calls'[r][Len(calls'[r])].op = "put_object"
             /\ calls'[r][Len(calls'[r])].outcome = "ok") =>
                LET put == calls'[r][Len(calls'[r])].args IN
                /\ put \in objects'
                /\ \A o \in objects' : (o.Key = put.Key /\ o.Bucket = put.Bucket) => o = put
                /\ \A o \in objects : (o.Key # put.Key \/ o.Bucket # put.Bucket) => o \in objects']_vars

\* both first runs are DONE and both have published, the store holds what the
\* first has put, and the second has put something else
C21_Witness ==
    /\ Outcome(RunName(1)) = "DONE" /\ Outcome(RunName(2)) = "DONE"
    /\ Put(RunName(1)) # Put(RunName(2))
    /\ objects = {Put(RunName(1))}
    /\ Len(published) = 2

\* the runs that have put a retry rule
Scheduling == {r \in DOMAIN pc : Came(r, "put_rule", "ok")}

\* the rule run r has put is in the scheduler with the replay of r's finding,
\* marked with the name of the rule, as its only target
RuleStands(r) ==
    \E rule \in rules :
        /\ rule.Name = sched[r].rule_name
        /\ Cardinality(rule.Targets) = 1
        /\ \A t \in rule.Targets :
            /\ JsonLoads(t.Input).detail_retryRuleName = rule.Name
            /\ JsonLoads(t.Input).detail_id = event[r].detail_id

\* C22: every put_rule call uses a name no other run has used: two throttled
\* runs, for the same finding or not, at the same time or one after the
\* other, put two rules, there are as many rules as runs that have put one,
\* and the rule of a run that has registered its replay stays in the
\* scheduler with that replay whatever the other runs do.
C22_FreshNamePerSchedule ==
    /\ \A r, q \in Scheduling : r # q => sched[r].rule_name # sched[q].rule_name
    /\ Cardinality(rules) = Cardinality(Scheduling)
    /\ \A r \in DOMAIN pc : Registered(r) => RuleStands(r)

C22_Witness ==
    /\ Registered(RunName(1)) /\ Registered(RunName(2))
    /\ \E r \in DOMAIN pc : Has(event[r], "detail_retryRuleName") /\ Registered(r)
    /\ Cardinality({rule \in rules : \E t \in rule.Targets :
                        JsonLoads(t.Input).detail_id = FINDING_ID}) >= 3

\* the run whose retry rule has delivered the event of run r
Parent(r) ==
    CHOOSE q \in DOMAIN pc : q \in Scheduling /\ sched[q].rule_name = RetryRuleName(event[r])

\* the runs run r descends from: the run that scheduled it, the run that
\* scheduled that one, and so on
RECURSIVE Ancestors(_)
Ancestors(r) ==
    IF Has(event[r], "detail_retryRuleName") THEN {Parent(r)} \cup Ancestors(Parent(r)) ELSE {}

\* C28: a throttled run whose rule is registered ends RESCHEDULED with one
\* more rule in the scheduler, whether its event is the original one or a
\* replay and however many reschedulings came before it; as long as no run
\* has been answered by the analysis capability, every run that has ended is
\* RESCHEDULED and none is DONE or FAILED.
C28_EveryThrottledReplayIsRescheduled ==
    /\ \A r \in DOMAIN pc :
        Registered(r) =>
            /\ Outcome(r) = "RESCHEDULED"
            /\ Count(r, "put_rule") = 1
            /\ RuleStands(r)
            /\ \A a \in Ancestors(r) : Outcome(a) = "RESCHEDULED" /\ RuleStands(a)
            /\ Cardinality(rules) > Cardinality(Ancestors(r))
    /\ (\A q \in DOMAIN pc : ~Came(q, "invoke_model", "ok")) =>
            \A q \in DOMAIN pc : pc[q] = "done" => Outcome(q) = "RESCHEDULED"

\* a chain as long as the runs allow: each run but the last of the chain is
\* the replay of the one before
C28_Witness ==
    \E r \in DOMAIN pc :
        /\ Cardinality(Ancestors(r)) = MaxRuns - 2
        /\ Outcome(r) = "RESCHEDULED"
        /\ \A q \in DOMAIN pc : Outcome(q) = "RESCHEDULED"
        /\ Cardinality(rules) = MaxRuns

\* C29: when a run whose trigger carries the marker M is throttled and
\* registers a rule, the name M' of that rule is not M, the replay carries M'
\* and not M, the run tries no deletion and the rule M stays in the
\* scheduler; the runs that descend from it carry other markers than M, and
\* a run tries a deletion for its own marker only, so none of them tries to
\* delete M.
C29_EarlierMarkersAreNeverCancelled ==
    \A r \in DOMAIN pc :
        /\ (Has(event[r], "detail_retryRuleName") /\ Registered(r)) =>
            /\ sched[r].rule_name # event[r].detail_retryRuleName
            /\ \A c \in CallsOf(r, "put_targets") : \A t \in c.args.Targets :
                    JsonLoads(t.Input).detail_retryRuleName = sched[r].rule_name
            /\ ~TriedDeletion(r)
            /\ \E rule \in rules : rule.Name = event[r].detail_retryRuleName
        /\ \A a \in Ancestors(r) :
                RetryRuleName(event[r]) # RetryRuleName(event[a])
        /\ TriedDeletion(r) =>
            /\ Has(event[r], "detail_retryRuleName")
            /\ Came(r, "invoke_model", "ok")
            /\ \A c \in CallsOf(r, "delete_rule") :
                    c.args.Name = event[r].detail_retryRuleName

\* a replay is throttled, and the replay of its rule is DONE and has tried to
\* delete that rule, while the rule of the first replay is still there
C29_Witness ==
    \E r, q \in DOMAIN pc :
        /\ Has(event[r], "detail_retryRuleName") /\ Registered(r)
        /\ Has(event[q], "detail_retryRuleName") /\ Parent(q) = r
        /\ Outcome(q) = "DONE" /\ TriedDeletion(q)
        /\ \E rule \in rules : rule.Name = event[r].detail_retryRuleName

-----------------------------------------------------------------------------
(* Validation of the trigger, the sentinel and the half-made rule *)

\* C32: a trigger whose detail.id or detail.service.detectorId is present
\* but empty ends with status 500 before any collaborator call (in a run
\* whose bucket name and topic ARN are set).
C32_EmptyIdentifierIsRejected ==
    \A r \in DOMAIN pc :
        (/\ Configured(r)
         /\ pc[r] # "start"
         /\ \/ Get(event[r], "detail_id", "absent") = ""
            \/ Get(event[r], "detail_service_detectorId", "absent") = "") =>
            /\ Outcome(r) = "FAILED"
            /\ calls[r] = <<>>

\* C35: a run returns "Event scheduled." only when it has put a rule and its
\* target in that run; a run whose invoke_model call has succeeded, with
\* whatever text, does not.
C35_RescheduledOnlyWithSchedule ==
    \A r \in DOMAIN pc :
        /\ Outcome(r) = "RESCHEDULED" => Registered(r)
        /\ Came(r, "invoke_model", "ok") => Outcome(r) # "RESCHEDULED"

\* the same for every text but the literal "rescheduled"
C35_RescheduledOnlyWithScheduleOrSentinel ==
    \A r \in DOMAIN pc :
        (Outcome(r) = "RESCHEDULED" /\ ~Registered(r)) =>
            /\ Came(r, "invoke_model", "ok")
            /\ ai_insights[r] = RESCHEDULED
            /\ Count(r, "put_rule") = 0

\* C36: once schedule_retry is over, the rule it has put has its replay
\* target and the run is RESCHEDULED, or the rule is not in the scheduler: no
\* rule is left without a target.
C36_NoRuleWithoutTarget ==
    \A r \in DOMAIN pc :
        (pc[r] = "done" /\ Came(r, "put_rule", "ok")) =>
            \/ /\ Outcome(r) = "RESCHEDULED"
               /\ \E rule \in rules : rule.Name = sched[r].rule_name /\ rule.Targets # {}
            \/ ~\E rule \in rules : rule.Name = sched[r].rule_name

-----------------------------------------------------------------------------
(* A continuation token in the answer of list_members *)

\* the run was answered by list_members with a NextToken
Truncated(r) ==
    \E c \in CallsOf(r, "list_members") : c.outcome = "ok" /\ Has(c.response, "NextToken")

\* C33: when the answer of list_members carries a NextToken, the run logs
\* it, goes on with the MemberDetails of that answer and does not fail on
\* it; list_members is called once, with the graph ARN that list_graphs gave.
C33_TruncationIsLogged ==
    \A r \in DOMAIN pc :
        Truncated(r) =>
            /\ errors[r] # <<>>
            /\ Count(r, "list_members") = 1
            /\ \A c \in CallsOf(r, "list_members") :
                    /\ c.args.GraphArn = GRAPH_ARN
                    /\ detective_entities[r] = Get(c.response, "MemberDetails", <<>>)
            /\ pc[r] = "invoke_model" => exit[r] = "running"

\* the same without the log entry
C33_TruncationIsSurvived ==
    \A r \in DOMAIN pc :
        Truncated(r) =>
            /\ Count(r, "list_members") = 1
            /\ \A c \in CallsOf(r, "list_members") :
                    /\ c.args.GraphArn = GRAPH_ARN
                    /\ detective_entities[r] = Get(c.response, "MemberDetails", <<>>)
            /\ pc[r] = "invoke_model" =>
                    /\ exit[r] = "running"
                    /\ errors[r] = <<>>

-----------------------------------------------------------------------------
(* The replay of a replay *)

\* the keys lambda_handler and schedule_retry read from an event
KeysRead ==
    Range(ScheduleKeys) \cup PayloadKeys \cup {"detail_id", "detail_service_detectorId"}

\* the Input of the target that run r has put, parsed
PayloadOf(r) ==
    LET c == CHOOSE c \in CallsOf(r, "put_targets") : TRUE
        t == CHOOSE t \in c.args.Targets : TRUE
    IN  JsonLoads(t.Input)

\* C37: the Input of every target has every key that lambda_handler and
\* schedule_retry read from an event, so a throttled run whose event is such
\* an Input builds its own Input without a missing key, with the same keys
\* and the same values but for the marker, however many replays came before.
C37_ReplayPayloadIsClosed ==
    /\ \A rule \in rules : \A t \in rule.Targets :
            /\ KeysRead \subseteq DOMAIN JsonLoads(t.Input)
            /\ Has(JsonLoads(t.Input), "detail_retryRuleName")
    /\ \A r \in DOMAIN pc :
        (/\ Has(event[r], "detail_retryRuleName")
         /\ Came(r, "invoke_model", "throttled")
         /\ pc[r] = "done") =>
            /\ Registered(r)
            /\ errors[r] = <<>>
            /\ PayloadOf(r) = [event[r] EXCEPT !.detail_retryRuleName = sched[r].rule_name]

\* the replay of a replay is throttled and has put its rule and target
C37_Witness ==
    \E r \in DOMAIN pc :
        /\ Cardinality(Ancestors(r)) = 2
        /\ Registered(r)
        /\ pc[r] = "done"

-----------------------------------------------------------------------------
(* generate_pdf called on its own, with findings that lack fields *)

\* d with the keys of ks only
Restrict(d, ks) == [k \in ks |-> d[k]]

\* the finding of the tests with any of its keys left out, as in
\* test_generate_pdf, whose finding has no AccountId and no Region
RenderedFindings ==
    LET f == Finding(EVENT.detail_id, 60) IN {Restrict(f, ks) : ks \in SUBSET DOMAIN f}

\* the state in which a test calls generate_pdf(ai_insights, guardduty_finding)
InitRender ==
    /\ pc = [r \in Runs |-> "generate_pdf"]
    /\ event = [r \in Runs |-> EVENT]
    /\ env = [r \in Runs |-> Deployed]
    /\ finding \in [Runs -> RenderedFindings]
    /\ detective_entities = [r \in Runs |-> <<>>]
    /\ ai_insights \in [Runs -> {Text(t) : t \in AnalysisTexts}]
    /\ sched = [r \in Runs |-> NoSchedule]
    /\ pdf_buffer = [r \in Runs |-> NoDocument]
    /\ pre_signed_url = [r \in Runs |-> <<>>]
    /\ result = [r \in Runs |-> NoResult]
    /\ exit = [r \in Runs |-> "running"]
    /\ calls = [r \in Runs |-> <<>>]
    /\ errors = [r \in Runs |-> <<>>]
    /\ rules = {}
    /\ objects = {}
    /\ published = <<>>
    /\ uuids = 0

\* index.py 276-382: generate_pdf, from its call to its return
GeneratePdfCall(r) ==
    /\ pc[r] = "generate_pdf"
    /\ \E now \in GenerationTimes :
            pdf_buffer' = [pdf_buffer EXCEPT ![r] =
                               GeneratePdf(ai_insights[r].lines, finding[r], now)]
    /\ pc' = [pc EXCEPT ![r] = "done"]
    /\ UNCHANGED <<event, env, finding, detective_entities, ai_insights, sched,
                   pre_signed_url, result, exit, calls, errors, rules, objects,
                   published, uuids>>

NextRender == \E r \in DOMAIN pc : GeneratePdfCall(r)

SpecRender == InitRender /\ [][NextRender]_vars

\* the keys of the summary block and the labels of its lines, in their order
SummaryFields == <<"Type", "Id", "Severity", "AccountId", "Region">>

SummaryLabels ==
    <<"Finding Type: ", "Finding ID: ", "Severity: ", "Account ID: ", "Region: ">>

\* C31: whichever of Type, Id, Severity, AccountId and Region the finding
\* lacks, the document of generate_pdf has its title and a summary block of
\* five lines, labelled Finding Type, Finding ID, Severity, Account ID and
\* Region in that order, each with the value of the finding, or with "N/A"
\* when the finding has no such key.
C31_SummaryHasFiveLines ==
    \A r \in DOMAIN pc :
        pdf_buffer[r] # NoDocument =>
            LET d == pdf_buffer[r].details
                f == finding[r]
            IN  /\ pdf_buffer[r].title[1] = "GuardDuty Finding Report"
                /\ Len(d) = 5
                /\ \A i \in 1..5 :
                    /\ d[i][1] = SummaryLabels[i]
                    /\ d[i][2] = IF ~Has(f, SummaryFields[i]) THEN "N/A"
                                 ELSE IF i = 3 THEN ToString(f.Severity)
                                 ELSE f[SummaryFields[i]]

\* a document for a finding that has a Type and neither Severity nor Region
C31_Witness ==
    \E r \in DOMAIN pc :
        /\ pdf_buffer[r] # NoDocument
        /\ DOMAIN finding[r] = {"Type", "Id", "AccountId"}
        /\ pdf_buffer[r].details[3] = <<"Severity: ", "N/A">>

-----------------------------------------------------------------------------
(* The request to the analysis capability: findings and members with nested *)
(* values, and environments with body_args_ settings                        *)

\* containers are nested at most this deep in the values drawn
MaxNesting == 2

\* a Decimal, an aware datetime and a str
Leaves == {PyDecimal(15), PyDatetime(59 * 86400 + 86399, TRUE), PyStr(<<"SSH">>)}

\* the leaves, the empty containers, the lists of a leaf and a value and the
\* dicts of two keys, nested up to depth d
RECURSIVE Values(_)
Values(d) ==
    IF d = 0 THEN Leaves
    ELSE LET inner == Values(d - 1) IN
         inner \cup {PyList(<<>>), PyDict([k \in {} |-> 0])}
               \cup {PyList(<<x, y>>) : x \in Leaves, y \in inner}
               \cup {PyDict([First |-> x, Second |-> y]) : x \in Leaves, y \in inner}

\* d with the value v under the key k
WithKey(d, k, v) == [f \in DOMAIN d \cup {k} |-> IF f = k THEN v ELSE d[f]]

\* findings with the provider's detail under the key Service
RichFindings == {WithKey(Finding(FINDING_ID, 60), "Service", v) : v \in Values(MaxNesting)}

\* the answers of list_members of the tests, and members with the naive
\* datetime and the Decimal that the tests do not have
RichResponses ==
    ListMembersResponses \cup
    {[MemberDetails |->
        <<WithKey(MEMBER_DETAILS[1], "InvitedTime", PyDatetime(30, FALSE)),
          WithKey(MEMBER_DETAILS[1], "VolumeUsage",
                  PyDict([Bytes |-> PyDecimal(40),
                          Updated |-> PyList(<<PyDatetime(0, TRUE), PyInt(2)>>)]))>>]}

\* the settings the environment may hold besides the bucket and the topic
Settings ==
    [BEDROCK_MODEL_ID |-> "amazon.titan-text-express-v1",
     body_args_anthropic_version |-> "bedrock-2023-05-31",
     body_args_top_k |-> "250",
     body_args_stop_sequences |-> "[]",
     body_args_max_tokens |-> "100",
     body_args_messages |-> "[]"]

\* the deployed environment with any of the settings
ConfigMaps ==
    {[k \in DOMAIN Deployed \cup ks |-> IF k \in ks THEN Settings[k] ELSE Deployed[k]] :
        ks \in SUBSET DOMAIN Settings}

\* the state in which lambda_handler calls list_members (index.py 489): the
\* finding and the graph are there
InitRequest ==
    /\ pc = [r \in Runs |-> "list_members"]
    /\ event = [r \in Runs |-> EVENT]
    /\ \/ env \in [Runs -> ConfigMaps] /\ finding \in [Runs -> {Finding(FINDING_ID, 60)}]
       \/ env \in [Runs -> {Deployed}] /\ finding \in [Runs -> RichFindings]
    /\ detective_entities = [r \in Runs |-> <<>>]
    /\ ai_insights = [r \in Runs |-> None]
    /\ sched = [r \in Runs |-> NoSchedule]
    /\ pdf_buffer = [r \in Runs |-> NoDocument]
    /\ pre_signed_url = [r \in Runs |-> <<>>]
    /\ result = [r \in Runs |-> NoResult]
    /\ exit = [r \in Runs |-> "running"]
    /\ calls = [r \in Runs |->
                    <<Call("guardduty", "get_findings",
                           [DetectorId |-> DETECTOR_ID, FindingIds |-> <<FINDING_ID>>], "ok"),
                      Call("detective", "list_graphs", [none |-> TRUE], "ok")>>]
    /\ errors = [r \in Runs |-> <<>>]
    /\ rules = {}
    /\ objects = {}
    /\ published = <<>>
    /\ uuids = 0

\* one creation time and one delay, one text
OneAnswer ==
    \A r \in DOMAIN pc :
        /\ sched[r] # NoSchedule =>
                /\ sched[r].now = 0
                /\ sched[r].cron_expression = PriorRule.ScheduleExpression
        /\ Came(r, "invoke_model", "ok") => ai_insights[r] = Text(Str(<<"Test AI Insights">>))

NextRequest ==
    \/ \E r \in DOMAIN pc : GetAllDetectiveEntitiesFrom(r, RichResponses)
    \/ \E r \in DOMAIN pc : InvokeBedrockModel(r) /\ OneAnswer'

SpecRequest == InitRequest /\ [][NextRequest]_vars

\* the body of the request of an invoke_model call, parsed
BodyOf(c) == JsonLoads(c.args.body)

\* C38: whatever the environment holds, the body sent to invoke_model has
\* the messages with the instruction and the two documents, still has
\* max_tokens and temperature, and has every body_args_ setting under its
\* name, parsed as JSON or else as the string it is.
C38_SettingsOnlyAdd ==
    \A r \in DOMAIN pc : \A c \in CallsOf(r, "invoke_model") :
        /\ BodyOf(c).messages = Messages(finding[r], detective_entities[r])
        /\ {"max_tokens", "temperature"} \subseteq DOMAIN BodyOf(c)
        /\ \A key \in DOMAIN env[r] :
                StartsWithBodyArgs(key) =>
                    /\ Has(BodyOf(c), BodyArgName[key])
                    /\ BodyOf(c)[BodyArgName[key]] = JsonLoadsOrText(env[r][key])

\* the same for the environments that set no body_args_messages, and with
\* the values the settings come to; a default stays unless a setting has its
\* name
C38_SettingsAddOrReplace ==
    \A r \in DOMAIN pc : \A c \in CallsOf(r, "invoke_model") :
        LET body == BodyOf(c)
            defaults == DefaultBodyArgs(finding[r], detective_entities[r])
            named == {BodyArgName[key] : key \in {k \in DOMAIN env[r] : StartsWithBodyArgs(k)}}
        IN  /\ DOMAIN body = DOMAIN defaults \cup named
            /\ \A n \in DOMAIN defaults \ named : body[n] = defaults[n]
            /\ Has(env[r], "body_args_anthropic_version") =>
                    body.anthropic_version = PyStr(<<"bedrock-2023-05-31">>)
            /\ Has(env[r], "body_args_top_k") => body.top_k = PyInt(250)
            /\ Has(env[r], "body_args_stop_sequences") => body.stop_sequences = PyList(<<>>)
            /\ Has(env[r], "body_args_max_tokens") => body.max_tokens = PyInt(100)
            /\ Has(env[r], "body_args_messages") => body.messages = PyList(<<>>)
            /\ c.args.modelId = Get(env[r], "BEDROCK_MODEL_ID", BEDROCK_MODEL_ID)

\* a value without a Decimal and without a datetime, however deep
RECURSIVE Serializable(_)
Serializable(v) ==
    IF v.kind = "dict" THEN \A k \in DOMAIN v.entries : Serializable(v.entries[k])
    ELSE IF v.kind = "list" THEN \A i \in 1..Len(v.items) : Serializable(v.items[i])
    ELSE v.kind \notin {"Decimal", "datetime"}

\* y is x with a float for every Decimal and the ISO 8601 str for every
\* datetime: the same keys, the same lengths, the same order, and every
\* other value as it was
RECURSIVE Normalized(_, _)
Normalized(x, y) ==
    IF x.kind = "dict"
    THEN /\ y.kind = "dict"
         /\ DOMAIN y.entries = DOMAIN x.entries
         /\ \A k \in DOMAIN x.entries : Normalized(x.entries[k], y.entries[k])
    ELSE IF x.kind = "list"
    THEN /\ y.kind = "list"
         /\ Len(y.items) = Len(x.items)
         /\ \A i \in 1..Len(x.items) : Normalized(x.items[i], y.items[i])
    ELSE IF x.kind = "Decimal" THEN y.kind = "float" /\ y.tenths = x.tenths
    ELSE IF x.kind = "datetime" THEN y.kind = "str" /\ y.s = IsoFormat(x)
    ELSE y = x

\* the same for a dict whose plain keys hold str and numbers
NormalizedDict(x, y, plain) ==
    /\ DOMAIN y = DOMAIN x
    /\ \A k \in DOMAIN x : IF k \in plain THEN y[k] = x[k] ELSE Normalized(x[k], y[k])

SerializableDict(x, plain) == \A k \in DOMAIN x \ plain : Serializable(x[k])

\* the step of run r from the answer of list_members to the analysis call
Converting(r) == pc[r] = "list_members" /\ pc'[r] = "invoke_model"

\* the MemberDetails of the answer of the last call of run r
LastMembers(cs) == Get(cs[Len(cs)].response, "MemberDetails", <<>>)

====
